---- MODULE Spec2Model ----
(***************************************************************************)
(* Model of the CloudSignal MQTT client: the connection supervisor         *)
(* (CloudSignalClient), the request/response correlator                    *)
(* (RequestResponseHandler) and the credential manager (TokenManager).     *)
(* The transport (mqtt.js handle), the broker and the token service are    *)
(* external: their events and answers are nondeterministic.                *)
(***************************************************************************)
EXTENDS Integers, Sequences, FiniteSets, TLC

\* ------------------------------------------------------------------ bounds
MaxHandles == 2        \* transport handles opened by connect()
MaxRequests == 1       \* request() calls
MaxTime == 1           \* clock ticks (Date.now())
MaxDrops == 2          \* transport connection losses
MaxAppSubs == 2        \* application subscribe() calls per topic
MaxTransmits == 4      \* transmit() calls
QueueCap == 2          \* config.maxOfflineQueueSize explored
MaxErrors == 2         \* 'error' events of the transports
MaxReconnect == 1      \* config.maxReconnectAttempts explored, besides 0
MaxConnectCalls == 1   \* connect() calls made while connected
MaxTokenConnects == 2
MaxAuthRetries == 1
MaxIssued == 2  \* connectWithToken() calls

Topics == {"t1", "t2"}
ResponseTopic == "response/cid"
None == "none"

Handles == 1..MaxHandles
Ids == 1..MaxRequests

VARIABLES
  config,               \* this.config (resolved once by the constructor)
  client,               \* this.client: 0 (null) or the current handle
  transports,           \* handle -> state of the mqtt.js handle
  connectionState,      \* this.connectionState
  hasEverConnected,     \* this.hasEverConnected
  reconnectAttempts,    \* this.reconnectAttempts
  lastConfig,           \* this.lastConfig # null
  connectPromise,       \* handle -> promise returned by the connect() that opened it
  postConnectTimers,    \* handles whose postConnectDelay timer is armed
  endCallbacks,         \* handles whose client.end() callback is outstanding
  drops                 \* number of connection losses so far

connVars == <<config, client, transports, connectionState, hasEverConnected,
              reconnectAttempts, lastConfig, connectPromise, postConnectTimers,
              endCallbacks, drops>>

VARIABLES
  ongoingSubscriptions, \* Map topic -> {qos, callback}, in insertion order
  transportSubs,        \* handle -> topics the broker holds for its session
  subCalls,             \* protocol-level subscribe calls awaiting their callback
  appSubs,              \* topic -> promises of the application's subscribe(t) calls since unsubscribe(t)
  protoSubs,            \* topic -> protocol-level subscribe calls those application calls issued
  resubBatches,         \* armed staggered-resubscribe timers, one sequence per _resubscribeAll
  unsubCalls,           \* protocol-level unsubscribe calls awaiting their callback
  unsubscribed,         \* topics the application has called unsubscribe() for
  recordBefore,         \* subscription record when the transport was last lost
  cycle                 \* progress of the current disconnect/reconnect cycle

subVars == <<ongoingSubscriptions, transportSubs, subCalls, appSubs,
             protoSubs, resubBatches, unsubCalls, unsubscribed, recordBefore, cycle>>

VARIABLES
  offlineQueue,         \* this.offlineQueue
  published,            \* messages handed to client.publish by the supervisor
  transmitted,          \* messages passed to transmit() since the buffer was last empty and offline
  transmitCount,        \* number of transmit() calls
  lastTransmit          \* outcome of the last transmit() call

queueVars == <<offlineQueue, published, transmitted, transmitCount, lastTransmit>>

VARIABLES
  rrClient,             \* requestHandler.client: 0 (null) or a handle
  responseTopic,        \* requestHandler.responseTopic
  correlationCounter,   \* correlationIdGenerator.counter
  pendingRequests,      \* Map correlationId -> pending record
  reqTimers,            \* armed request timers (setTimeout handles)
  reqState,             \* correlationId -> pending.state
  requestTopic,         \* correlationId -> topic passed to request()
  requestPromise,       \* correlationId -> calls of the promise's resolve/reject, in order
  pubAck,               \* correlationId -> state of the awaited _publish promise
  stats,                \* requestHandler.stats
  now,                  \* Date.now()
  messageCallbacks,     \* number of global listeners registered with onMessage
  lastDelivery          \* who was offered the last inbound message, in order

rrVars == <<rrClient, responseTopic, correlationCounter, pendingRequests,
            reqTimers, reqState, requestTopic, requestPromise, pubAck, stats, now,
            messageCallbacks, lastDelivery>>

VARIABLES
  tmOptions,            \* autoRefresh, maxRefreshRetries and refreshRetryDelay, fixed by the constructor
  tokenId,              \* this.tokenId (accessToken is stored and cleared with it): 0 is null
  mqttCredentials,      \* this.mqttCredentials: the token whose response carried them, 0 is null
  expiresIn,            \* this.expiresAt as the time left until it, NoTime is null
  refreshIn,            \* this.refreshRecommendedAt as the time left until it, NoTime is null
  tokenState,           \* this.state
  isRefreshing,         \* this.isRefreshing
  refreshRetryCount,    \* this.refreshRetryCount
  refreshTimer,         \* this.refreshTimer as the delay left, NoTime when not armed
  retryTimers,          \* the armed retry timers: the delay left and the time waited
  tokenCallbacks,       \* the on... callbacks are set
  tokenErrors,          \* the error types passed to onTokenError
  tokenRequests,        \* requests to the token service awaiting their response
  refreshCalls,         \* every refreshToken() call: who made it, what it issued and returned
  tokensIssued,         \* tokens the token service has issued
  acquires              \* createToken()/exchangeToken() calls

tmVars == <<tmOptions, tokenId, mqttCredentials, expiresIn, refreshIn, tokenState, isRefreshing,
            refreshRetryCount, refreshTimer, retryTimers, tokenCallbacks, tokenErrors,
            tokenRequests, refreshCalls, tokensIssued, acquires>>

VARIABLES
  transportErrors,      \* 'error' events the transports have emitted
  authErrorCalls,       \* invocations of this.onAuthError
  afterAuthError,       \* reconnect attempts begun since the first auth error, NoAttempts before it
  lastReconnecting,     \* the last argument passed to this.onReconnecting, 0 before the first
  connectCalls,         \* connect() calls that resolved at once, already connected
  transportCreds,       \* handle -> options.username/password given to mqtt.connect: the token
                        \* they came with, 0 for credentials of the application
  lastConfigCreds,      \* username/password of this.lastConfig
  lastAttempt,          \* the latest connection attempt: the credentials it used and those stored then
  forceCallbacks,       \* handles whose end() callback of forceReconnect() is outstanding
  tokenConnects,        \* every connectWithToken() call: its config, the token call made, the outcome
  lastDestroy,          \* the most recent destroy() of the token manager: what it left, whether it repeated one
  destroyed,            \* destroy() of the client has set this.tokenManager and this.requestHandler to null
  lastUnsubscribe,      \* the unsubscribe() promise settled last: its topic and how it was settled
  issuedIds,            \* every id generate() returned: its sequence number, whether a call with it was pending
  armedTimers,          \* number of setTimeout timers of _scheduleRefresh that are armed
  organizationId        \* this.organizationId of the token manager, 0 for null

\* what destroy() of the token manager and of the client leave, how unsubscribe() ended,
\* the correlation ids generated, the scheduled-refresh timers of the runtime, the
\* organization the token manager remembers
extraVars == <<lastDestroy, destroyed, lastUnsubscribe, issuedIds, armedTimers, organizationId>>

\* the observations of the connection supervisor
clientObs == <<transportErrors, authErrorCalls, afterAuthError, lastReconnecting, connectCalls,
               transportCreds, lastConfigCreds, lastAttempt, forceCallbacks, tokenConnects>>

supVars == <<transportErrors, authErrorCalls, afterAuthError, lastReconnecting, connectCalls,
             transportCreds, lastConfigCreds, lastAttempt, forceCallbacks, tokenConnects, extraVars>>

vars == <<connVars, subVars, queueVars, rrVars, tmVars, supVars>>

\* ------------------------------------------------------- connection supervisor
\* no auth error has been seen
NoAttempts == 0 - 1

TransportStates == {"unused", "connecting", "connected", "closed", "ending", "ended"}

\* this.requestHandler and this.tokenManager: made by the constructor when configured,
\* null after destroy()
HasRequestHandler == config.enableRequestResponse /\ ~destroyed
HasTokenManager == config.tokenServiceUrl /\ ~destroyed

\* isConnected(): this.client && this.client.connected
IsConnected == client # 0 /\ transports[client] = "connected"

\* Map helpers for ongoingSubscriptions (a Map keeps insertion order)
MapKeys(m) == {m[i].topic : i \in 1..Len(m)}
MapHas(m, t) == t \in MapKeys(m)
MapGet(m, t) == m[CHOOSE i \in 1..Len(m) : m[i].topic = t]
MapDelete(m, t) == SelectSeq(m, LAMBDA e : e.topic # t)
MapSet(m, t, q, cb) ==
  IF MapHas(m, t)
    THEN [i \in 1..Len(m) |-> IF m[i].topic = t THEN [topic |-> t, qos |-> q, callback |-> cb] ELSE m[i]]
    ELSE Append(m, [topic |-> t, qos |-> q, callback |-> cb])

\* qos resolution of subscribe(): explicit option, else config.defaultSubscribeQos
QosUndefined == 0 - 1
ResolveQos(opt) == IF opt # QosUndefined THEN opt ELSE config.defaultSubscribeQos

\* the protocol-level subscribe calls one non-staggered _resubscribeAll issues
ResubCalls(entries, h) ==
  [i \in 1..Len(entries) |->
     [h |-> h, topic |-> entries[i].topic, qos |-> entries[i].qos,
      callback |-> entries[i].callback, promise |-> 0]]

\* _resubscribeAll(): the record is swapped out and every entry resubscribed,
\* through a timer each when staggered, else at once by subscribe()
ResubscribeAllRecord == <<>>
ResubscribeAllBatches ==
  IF Len(ongoingSubscriptions) > 0 /\ config.staggeredResubscribe
    THEN Append(resubBatches, ongoingSubscriptions)
    ELSE resubBatches
ResubscribeAllCalls(connected) ==
  IF Len(ongoingSubscriptions) > 0 /\ ~config.staggeredResubscribe /\ connected
    THEN ResubCalls(ongoingSubscriptions, client)
    ELSE <<>>

\* requestHandler.initialize(client, clientId) subscribes to the response topic
InitializeCalls(connected) ==
  IF HasRequestHandler /\ client # 0 /\ connected
    THEN <<[h |-> client, topic |-> ResponseTopic, qos |-> 1, callback |-> FALSE, promise |-> 0]>>
    ELSE <<>>

\* _onConnect(): online event, flush of the offline queue, resubscription,
\* initialisation of the request handler; connected is isConnected() at the call
OnConnect(connected) ==
  /\ IF connected
       THEN /\ published' = published \o offlineQueue
            /\ offlineQueue' = <<>>
            /\ transmitted' = <<>>
       ELSE UNCHANGED <<published, offlineQueue, transmitted>>
  /\ UNCHANGED <<transmitCount, lastTransmit>>
  /\ ongoingSubscriptions' = ResubscribeAllRecord
  /\ resubBatches' = ResubscribeAllBatches
  /\ subCalls' = subCalls \o ResubscribeAllCalls(connected) \o InitializeCalls(connected)
  /\ IF HasRequestHandler /\ client # 0
       THEN /\ rrClient' = client
            /\ responseTopic' = ResponseTopic
       ELSE UNCHANGED <<rrClient, responseTopic>>

NextHandle == CHOOSE h \in Handles : transports[h] = "unused" /\ \A g \in Handles : g < h => transports[g] # "unused"

\* connect(config) while not connected
\* connect(config) past its guard: the state is CONNECTING, the counter is
\* reset, a transport is opened with the username and password of config and
\* becomes this.client, config becomes this.lastConfig (stored: the
\* credentials the token manager holds at that moment)
OpenTransport(creds, stored) ==
  /\ \E h \in Handles : transports[h] = "unused"
  /\ connectionState' = "connecting"
  /\ reconnectAttempts' = 0
  /\ client' = NextHandle
  /\ transports' = [transports EXCEPT ![NextHandle] = "connecting"]
  /\ lastConfig' = TRUE
  /\ connectPromise' = [connectPromise EXCEPT ![NextHandle] = "pending"]
  /\ transportCreds' = [transportCreds EXCEPT ![NextHandle] = creds]
  /\ lastConfigCreds' = creds
  /\ lastAttempt' = [used |-> creds, stored |-> stored]
  /\ UNCHANGED <<config, hasEverConnected, postConnectTimers, endCallbacks, drops>>
  /\ UNCHANGED <<transportErrors, authErrorCalls, afterAuthError, lastReconnecting, connectCalls>>

\* a guard of connect() that never takes the transport for connected
AlreadyConnectedNever == FALSE

\* if (this.client && this.client.connected): connect() has nothing to do
AlreadyConnected == IsConnected

Connect ==
  IF AlreadyConnected
    THEN \* resolve() at once
         /\ connectCalls < MaxConnectCalls
         /\ connectCalls' = connectCalls + 1
         /\ UNCHANGED <<transportErrors, authErrorCalls, afterAuthError, lastReconnecting,
                        transportCreds, lastConfigCreds, lastAttempt, forceCallbacks,
                        tokenConnects, extraVars>>
         /\ UNCHANGED <<connVars, subVars, queueVars, rrVars, tmVars>>
    ELSE /\ OpenTransport(0, mqttCredentials)
         /\ UNCHANGED <<subVars, queueVars, rrVars>>
         /\ UNCHANGED tmVars
         /\ UNCHANGED <<forceCallbacks, tokenConnects, extraVars>>

\* transport 'connect' event
TransportConnect(h) ==
  /\ transports[h] = "connecting"
  /\ transports' = [transports EXCEPT ![h] = "connected"]
  /\ hasEverConnected' = TRUE
  /\ reconnectAttempts' = 0
  /\ connectionState' = "connected"
  /\ \E sessionPresent \in BOOLEAN :
       transportSubs' = [transportSubs EXCEPT ![h] = IF sessionPresent THEN @ ELSE {}]
  /\ cycle' = IF h = client /\ cycle = "lost" THEN "reconnected" ELSE cycle
  /\ IF config.postConnectDelay
       THEN /\ postConnectTimers' = postConnectTimers \cup {h}
            /\ UNCHANGED <<connectPromise, ongoingSubscriptions, resubBatches, subCalls,
                           queueVars, rrClient, responseTopic>>
       ELSE /\ OnConnect(client # 0 /\ (client = h \/ transports[client] = "connected"))
            /\ connectPromise' = [connectPromise EXCEPT ![h] = IF @ = "pending" THEN "resolved" ELSE @]
            /\ UNCHANGED postConnectTimers
  /\ UNCHANGED <<config, client, lastConfig, endCallbacks, drops>>
  /\ UNCHANGED <<appSubs, protoSubs, unsubCalls, unsubscribed, recordBefore>>
  /\ UNCHANGED <<correlationCounter, requestTopic, pendingRequests, reqTimers, reqState, requestPromise,
                 pubAck, stats, now, messageCallbacks, lastDelivery>>
  /\ UNCHANGED tmVars
  /\ UNCHANGED supVars

\* the postConnectDelay timer of the 'connect' handler fires
PostConnectTimer(h) ==
  /\ h \in postConnectTimers
  /\ postConnectTimers' = postConnectTimers \ {h}
  /\ OnConnect(IsConnected)
  /\ connectPromise' = [connectPromise EXCEPT ![h] = IF @ = "pending" THEN "resolved" ELSE @]
  /\ UNCHANGED <<config, client, transports, connectionState, hasEverConnected,
                 reconnectAttempts, lastConfig, endCallbacks, drops>>
  /\ UNCHANGED <<transportSubs, appSubs, protoSubs, unsubCalls, unsubscribed, recordBefore, cycle>>
  /\ UNCHANGED <<correlationCounter, requestTopic, pendingRequests, reqTimers, reqState, requestPromise,
                 pubAck, stats, now, messageCallbacks, lastDelivery>>
  /\ UNCHANGED tmVars
  /\ UNCHANGED supVars

\* 'close' handler
CloseHandlerState ==
  IF hasEverConnected /\ connectionState # "error" THEN "disconnected" ELSE connectionState

\* the transport loses its connection: 'close' event, automatic reconnect pending
TransportClose(h) ==
  /\ transports[h] \in {"connecting", "connected"}
  /\ drops < MaxDrops
  /\ drops' = drops + 1
  /\ transports' = [transports EXCEPT ![h] = "closed"]
  /\ connectionState' = CloseHandlerState
  /\ IF h = client /\ transports[h] = "connected"
       THEN /\ recordBefore' = MapKeys(ongoingSubscriptions)
            /\ cycle' = "lost"
       ELSE UNCHANGED <<recordBefore, cycle>>
  /\ UNCHANGED <<config, client, hasEverConnected, reconnectAttempts, lastConfig,
                 connectPromise, postConnectTimers, endCallbacks>>
  /\ UNCHANGED <<ongoingSubscriptions, transportSubs, subCalls, appSubs, protoSubs,
                 resubBatches, unsubCalls, unsubscribed>>
  /\ UNCHANGED <<queueVars, rrVars>>
  /\ UNCHANGED tmVars
  /\ UNCHANGED supVars

\* transport 'offline' event
TransportOffline(h) ==
  /\ transports[h] = "closed"
  /\ hasEverConnected
  /\ connectionState' = "disconnected"
  /\ UNCHANGED <<config, client, transports, hasEverConnected, reconnectAttempts, lastConfig,
                 connectPromise, postConnectTimers, endCallbacks, drops>>
  /\ UNCHANGED <<subVars, queueVars, rrVars>>
  /\ UNCHANGED tmVars
  /\ UNCHANGED supVars

\* transport 'reconnect' event: the transport starts another attempt; the
\* counter is raised and passed to onReconnecting
TransportReconnect(h) ==
  /\ transports[h] = "closed"
  /\ reconnectAttempts' = reconnectAttempts + 1
  /\ lastReconnecting' = IF destroyed THEN lastReconnecting ELSE reconnectAttempts + 1
  /\ LET maxed == config.maxReconnectAttempts > 0
                  /\ reconnectAttempts + 1 >= config.maxReconnectAttempts
     IN  IF maxed /\ client # 0
           THEN \* this.client.end(true), then state error
                /\ transports' = [g \in Handles |->
                                    IF g = client THEN "ending"
                                    ELSE IF g = h THEN "connecting" ELSE transports[g]]
                /\ connectionState' = "error"
           ELSE \* below the maximum (or this.client is null and end() throws)
                /\ transports' = [transports EXCEPT ![h] = "connecting"]
                /\ connectionState' = "reconnecting"
  /\ afterAuthError' = IF afterAuthError # NoAttempts /\ transports'[h] = "connecting"
                         THEN afterAuthError + 1 ELSE afterAuthError
  /\ lastAttempt' = IF transports'[h] = "connecting"
                      THEN [used |-> transportCreds[h], stored |-> mqttCredentials]
                      ELSE lastAttempt
  /\ UNCHANGED <<config, client, hasEverConnected, lastConfig, connectPromise,
                 postConnectTimers, endCallbacks, drops>>
  /\ UNCHANGED <<subVars, queueVars, rrVars>>
  /\ UNCHANGED tmVars
  /\ UNCHANGED <<transportErrors, authErrorCalls, connectCalls, transportCreds,
                 lastConfigCreds, forceCallbacks, tokenConnects, extraVars>>

\* the kinds of 'error' event the handler tells apart: a refusal of the
\* credentials, ECONNREFUSED/ETIMEDOUT, anything else
ErrorKinds == {"auth", "refused", "other"}

\* the connect() promise of a transport after reject(): a settled promise stays as it is
Reject(p) == IF p = "pending" THEN "rejected" ELSE p

\* client.end(true) on the handle g: a handle already ended stays ended
ForceEnd(st) == IF st \in {"ended", "unused"} THEN st ELSE "ending"

\* if (!this.config.reconnectOnAuthError) if (this.client) this.client.end(true)
StopReconnecting(ts) ==
  IF ~config.reconnectOnAuthError /\ client # 0
    THEN [ts EXCEPT ![client] = ForceEnd(ts[client])]
    ELSE ts

\* transport 'error' event on the handle h, while it is connecting
TransportError(h, kind) ==
  /\ transports[h] = "connecting"
  /\ transportErrors < MaxErrors
  /\ transportErrors' = transportErrors + 1
  /\ connectPromise' = [connectPromise EXCEPT ![h] = Reject(@)]
  /\ IF kind = "auth"
       THEN /\ connectionState' = "error"
            /\ transports' = StopReconnecting(transports)
            /\ authErrorCalls' = IF destroyed THEN authErrorCalls ELSE authErrorCalls + 1
            /\ afterAuthError' = IF afterAuthError = NoAttempts THEN 0 ELSE afterAuthError
       ELSE /\ connectionState' = IF kind = "refused" THEN "error" ELSE connectionState
            /\ UNCHANGED <<transports, authErrorCalls, afterAuthError>>
  /\ UNCHANGED <<config, client, hasEverConnected, reconnectAttempts, lastConfig,
                 postConnectTimers, endCallbacks, drops>>
  /\ UNCHANGED <<subVars, queueVars, rrVars>>
  /\ UNCHANGED tmVars
  /\ UNCHANGED <<lastReconnecting, connectCalls, transportCreds, lastConfigCreds, lastAttempt,
                 forceCallbacks, tokenConnects, extraVars>>

\* client.end() completes: the stream closes ('close' event when one was open)
\* and the callback given to end() runs
EndComplete(h) ==
  /\ transports[h] = "ending"
  /\ h \notin forceCallbacks
  /\ transports' = [transports EXCEPT ![h] = "ended"]
  /\ postConnectTimers' = postConnectTimers
  /\ IF h \in endCallbacks
       THEN \* callback of disconnect(): this.client = null, state disconnected, resolve
            /\ client' = 0
            /\ connectionState' = "disconnected"
            /\ endCallbacks' = endCallbacks \ {h}
       ELSE /\ \E closeEvent \in BOOLEAN :
                 connectionState' = IF closeEvent THEN CloseHandlerState ELSE connectionState
            /\ UNCHANGED <<client, endCallbacks>>
  /\ UNCHANGED <<config, hasEverConnected, reconnectAttempts, lastConfig, connectPromise, drops>>
  /\ UNCHANGED <<subVars, queueVars, rrVars>>
  /\ UNCHANGED tmVars
  /\ UNCHANGED supVars

\* a cancelAllRequests() that leaves the timers armed
CancelAllTimersKept == reqTimers

\* cancelAllRequests(): every pending call is rejected after its timer is cleared
CancelAllTimers == reqTimers \ DOMAIN pendingRequests
CancelAllPromise ==
  [id \in Ids |->
     IF id \in DOMAIN pendingRequests
       THEN Append(requestPromise[id],
                   [kind |-> "cancelled", timerArmed |-> id \in CancelAllTimers,
                    value |-> [correlationId |-> id]])
       ELSE requestPromise[id]]
CancelAllState ==
  [id \in Ids |-> IF id \in DOMAIN pendingRequests THEN "cancelled" ELSE reqState[id]]

\* requestHandler.destroy()
HandlerDestroy ==
  /\ requestPromise' = CancelAllPromise
  /\ reqState' = CancelAllState
  /\ reqTimers' = CancelAllTimers
  /\ pendingRequests' = << >>
  /\ rrClient' = 0
  /\ responseTopic' = None

\* disconnect(force)
Disconnect ==
  /\ IF HasRequestHandler
       THEN HandlerDestroy
       ELSE UNCHANGED <<requestPromise, reqState, reqTimers, pendingRequests, rrClient, responseTopic>>
  /\ IF client # 0
       THEN /\ connectionState' = "disconnecting"
            /\ transports' = [transports EXCEPT ![client] = "ending"]
            /\ endCallbacks' = endCallbacks \cup {client}
       ELSE /\ connectionState' = "disconnected"
            /\ UNCHANGED <<transports, endCallbacks>>
  /\ ongoingSubscriptions' = <<>>
  /\ UNCHANGED <<config, client, hasEverConnected, reconnectAttempts, lastConfig,
                 connectPromise, postConnectTimers, drops>>
  /\ cycle' = "none"
  /\ UNCHANGED <<transportSubs, subCalls, appSubs, protoSubs, resubBatches, unsubCalls,
                 unsubscribed, recordBefore>>
  /\ UNCHANGED queueVars
  /\ UNCHANGED <<correlationCounter, requestTopic, pubAck, stats, now, messageCallbacks, lastDelivery>>
  /\ UNCHANGED tmVars
  /\ UNCHANGED supVars

\* forceReconnect(): with a stored config the counter is reset and the
\* current transport ended by force, connect(this.lastConfig) following in the
\* callback of end(); without a transport connect(this.lastConfig) is called at once
ForceReconnect ==
  /\ lastConfig
  /\ IF client # 0
       THEN /\ reconnectAttempts' = 0
            /\ transports' = [transports EXCEPT ![client] = "ended"]
            /\ forceCallbacks' = forceCallbacks \cup {client}
            /\ UNCHANGED <<config, client, connectionState, hasEverConnected, lastConfig,
                           connectPromise, postConnectTimers, endCallbacks, drops>>
            /\ UNCHANGED <<transportErrors, authErrorCalls, afterAuthError, lastReconnecting,
                           connectCalls, transportCreds, lastConfigCreds, lastAttempt>>
       ELSE /\ OpenTransport(lastConfigCreds, mqttCredentials)
            /\ UNCHANGED forceCallbacks
  /\ UNCHANGED <<tokenConnects, extraVars>>
  /\ UNCHANGED <<subVars, queueVars, rrVars>>
  /\ UNCHANGED tmVars

\* the callback forceReconnect() gave to end(): this.client = null, then
\* connect(this.lastConfig)
ForceReconnectEnd(h) ==
  /\ h \in forceCallbacks
  /\ forceCallbacks' = forceCallbacks \ {h}
  /\ OpenTransport(lastConfigCreds, mqttCredentials)
  /\ UNCHANGED <<tokenConnects, extraVars>>
  /\ UNCHANGED <<subVars, queueVars, rrVars>>
  /\ UNCHANGED tmVars

\* ------------------------------------------------------------- subscriptions
QosOptions == {QosUndefined, 0}

RemoveAt(seq, i) == [j \in 1..(Len(seq) - 1) |-> IF j < i THEN seq[j] ELSE seq[j + 1]]

\* subscribe(topic, {qos, callback}) called by the application
Subscribe(t, qosOpt, cb) ==
  /\ Len(appSubs[t]) < MaxAppSubs
  /\ IF ~IsConnected
       THEN \* reject: client not connected
            /\ appSubs' = [appSubs EXCEPT ![t] = Append(@, "notConnected")]
            /\ UNCHANGED <<subCalls, protoSubs>>
       ELSE IF MapHas(ongoingSubscriptions, t)
         THEN \* already subscribed: resolve without a protocol call
            /\ appSubs' = [appSubs EXCEPT ![t] = Append(@, "resolved")]
            /\ UNCHANGED <<subCalls, protoSubs>>
         ELSE \* this.client.subscribe(topic, {qos}, callback)
            /\ appSubs' = [appSubs EXCEPT ![t] = Append(@, "pending")]
            /\ protoSubs' = [protoSubs EXCEPT ![t] = @ + 1]
            /\ subCalls' = Append(subCalls, [h |-> client, topic |-> t, qos |-> ResolveQos(qosOpt),
                                             callback |-> cb, promise |-> Len(appSubs[t]) + 1])
  /\ cycle' = "none"
  /\ UNCHANGED <<ongoingSubscriptions, transportSubs, resubBatches, unsubCalls, unsubscribed,
                 recordBefore>>
  /\ UNCHANGED <<connVars, queueVars, rrVars>>
  /\ UNCHANGED tmVars
  /\ UNCHANGED supVars

\* a subscribe callback that records the entry whatever the transport reports
SubscribeRecordedAlways(granted) == TRUE

\* the callback subscribe() gives to this.client.subscribe: the entry is set when
\* the transport reports no error
SubscribeRecorded(granted) == granted

\* the transport calls back a protocol-level subscribe: granted or error
SubscribeCallback(i, granted) ==
  /\ i \in 1..Len(subCalls)
  /\ granted => transports[subCalls[i].h] = "connected"
  /\ LET c == subCalls[i]
     IN  /\ subCalls' = RemoveAt(subCalls, i)
         /\ transportSubs' = IF granted THEN [transportSubs EXCEPT ![c.h] = @ \cup {c.topic}]
                              ELSE transportSubs
         /\ ongoingSubscriptions' =
              IF SubscribeRecorded(granted) /\ c.topic # ResponseTopic
                THEN MapSet(ongoingSubscriptions, c.topic, c.qos, c.callback)
                ELSE ongoingSubscriptions
         /\ appSubs' = IF c.promise = 0 THEN appSubs
                       ELSE [appSubs EXCEPT ![c.topic][c.promise] =
                               IF granted THEN "resolved" ELSE "rejected"]
         /\ cycle' = IF c.promise = 0 THEN cycle ELSE "none"
  /\ UNCHANGED <<protoSubs, resubBatches, unsubCalls, unsubscribed, recordBefore>>
  /\ UNCHANGED <<connVars, queueVars, rrVars>>
  /\ UNCHANGED tmVars
  /\ UNCHANGED supVars

\* a staggered-resubscribe timer fires: subscribe(topic) when still connected
ResubTimer(b) ==
  /\ b \in 1..Len(resubBatches)
  /\ LET e == Head(resubBatches[b])
         rest == Tail(resubBatches[b])
     IN  /\ resubBatches' = IF rest = <<>> THEN RemoveAt(resubBatches, b)
                            ELSE [resubBatches EXCEPT ![b] = rest]
         /\ IF IsConnected /\ ~MapHas(ongoingSubscriptions, e.topic)
              THEN subCalls' = Append(subCalls, [h |-> client, topic |-> e.topic, qos |-> e.qos,
                                                 callback |-> e.callback, promise |-> 0])
              ELSE UNCHANGED subCalls
  /\ UNCHANGED <<ongoingSubscriptions, transportSubs, appSubs, protoSubs, unsubCalls,
                 unsubscribed, recordBefore, cycle>>
  /\ UNCHANGED <<connVars, queueVars, rrVars>>
  /\ UNCHANGED tmVars
  /\ UNCHANGED supVars

\* unsubscribe(topic) called by the application
NoUnsubscribe == [topic |-> None, outcome |-> "none", had |-> FALSE, subs |-> 0, clean |-> TRUE]

\* the subscribe() calls of the application for a topic so far, and whether all have settled
AppSubscribes(t) == IF t \in Topics THEN Len(appSubs[t]) ELSE 0
AppSettled(t) == t \in Topics => \A i \in 1..Len(appSubs[t]) : appSubs[t][i] # "pending"

SupervisorFrame ==
  UNCHANGED <<transportErrors, authErrorCalls, afterAuthError, lastReconnecting, connectCalls,
              transportCreds, lastConfigCreds, lastAttempt, forceCallbacks, tokenConnects,
              lastDestroy, destroyed, issuedIds, armedTimers, organizationId>>

\* if (!this.client) of unsubscribe()
NoClientNever == FALSE
NoClient == client = 0

\* unsubscribe(t): rejected at once without a transport handle, else the protocol-level
\* unsubscribe is issued on the current transport
Unsubscribe(t) ==
  /\ IF NoClient
       THEN /\ lastUnsubscribe' = [topic |-> t, outcome |-> "notConnected",
                                   had |-> MapHas(ongoingSubscriptions, t),
                                   subs |-> AppSubscribes(t), clean |-> AppSettled(t)]
            /\ UNCHANGED <<unsubCalls, unsubscribed, cycle>>
       ELSE /\ unsubCalls' = unsubCalls \cup {[h |-> client, topic |-> t]}
            /\ unsubscribed' = unsubscribed \cup {t}
            /\ cycle' = "none"
            /\ UNCHANGED lastUnsubscribe
  /\ UNCHANGED <<ongoingSubscriptions, transportSubs, subCalls, appSubs, protoSubs,
                 resubBatches, recordBefore>>
  /\ UNCHANGED <<connVars, queueVars, rrVars>>
  /\ UNCHANGED tmVars
  /\ SupervisorFrame

\* the transport calls back a protocol-level unsubscribe
UnsubscribeCallback(c, ok) ==
  /\ c \in unsubCalls
  /\ ok => transports[c.h] = "connected"
  /\ unsubCalls' = unsubCalls \ {c}
  /\ IF ok
       THEN /\ ongoingSubscriptions' = MapDelete(ongoingSubscriptions, c.topic)
            /\ transportSubs' = [transportSubs EXCEPT ![c.h] = @ \ {c.topic}]
       ELSE UNCHANGED <<ongoingSubscriptions, transportSubs>>
  /\ lastUnsubscribe' = [topic |-> c.topic, outcome |-> IF ok THEN "resolved" ELSE "rejected",
                         had |-> MapHas(ongoingSubscriptions, c.topic),
                         subs |-> AppSubscribes(c.topic), clean |-> AppSettled(c.topic)]
  /\ cycle' = "none"
  /\ UNCHANGED <<subCalls, appSubs, protoSubs, resubBatches, unsubscribed, recordBefore>>
  /\ UNCHANGED <<connVars, queueVars, rrVars>>
  /\ UNCHANGED tmVars
  /\ SupervisorFrame

\* ------------------------------------------------------------ offline buffer
\* a capacity check that lets the queue grow one past the maximum
QueueFullOffByOne == config.maxOfflineQueueSize > 0 /\ Len(offlineQueue) > config.maxOfflineQueueSize

\* the queue branch of transmit(): the queue is at capacity
QueueFull == config.maxOfflineQueueSize > 0 /\ Len(offlineQueue) >= config.maxOfflineQueueSize

\* a shift() replaced by pop(): the newest entry goes instead of the oldest
DropNewest(q) == SubSeq(q, 1, Len(q) - 1)

\* this.offlineQueue.shift()
DropOldest(q) == Tail(q)

\* a reject-new branch that falls through to the push
RejectNewPushes(q, m) == Append(q, m)

\* dropOldestOnQueueFull = false: the message is dropped, the queue is kept
RejectNew(q, m) == q

\* transmit(topic, message, options)
Transmit(t) ==
  /\ transmitCount < MaxTransmits
  /\ transmitCount' = transmitCount + 1
  /\ LET m == [topic |-> t, message |-> transmitCount + 1,
               qos |-> config.defaultPublishQos, retain |-> FALSE]
     IN  IF IsConnected
           THEN /\ published' = Append(published, m)
                /\ lastTransmit' = [branch |-> "published", promise |-> "pending"]
                /\ UNCHANGED <<offlineQueue, transmitted>>
           ELSE IF config.enableOfflineQueue
             THEN /\ transmitted' = Append(transmitted, m)
                  /\ IF QueueFull
                       THEN IF config.dropOldestOnQueueFull
                              THEN /\ offlineQueue' = Append(DropOldest(offlineQueue), m)
                                   /\ lastTransmit' = [branch |-> "queued", promise |-> "resolved"]
                              ELSE /\ offlineQueue' = RejectNew(offlineQueue, m)
                                   /\ lastTransmit' = [branch |-> "dropped", promise |-> "resolved"]
                       ELSE /\ offlineQueue' = Append(offlineQueue, m)
                            /\ lastTransmit' = [branch |-> "queued", promise |-> "resolved"]
                  /\ UNCHANGED published
             ELSE /\ lastTransmit' = [branch |-> "discarded", promise |-> "resolved"]
                  /\ UNCHANGED <<offlineQueue, published, transmitted>>
  /\ UNCHANGED <<connVars, subVars, rrVars>>
  /\ UNCHANGED tmVars
  /\ UNCHANGED supVars

\* ------------------------------------------------- request/response correlator
MaxListeners == 1      \* global listeners registered with onMessage()

\* toBinaryCorrelationData / fromBinaryCorrelationData: utf-8 bytes of the id
ToBinaryCorrelationData(id) == <<"utf8", id>>
FromBinaryCorrelationData(data) == data[2]

\* message bodies: JSON objects (with an optional correlationId field) or plain text
NoId == 0
Bodies == [json : {TRUE}, correlationId : {NoId} \cup Ids] \cup {[json |-> FALSE, correlationId |-> NoId]}

\* JSON.parse(message.toString()) with the fallback to the string
ParsePayload(body) ==
  IF body.json THEN [type |-> "object", correlationId |-> body.correlationId]
  ELSE [type |-> "string", correlationId |-> NoId]

Messages == [topic : Topics \cup {ResponseTopic},
             correlationData : {<<>>} \cup {ToBinaryCorrelationData(id) : id \in Ids},
             userCorrelationId : {NoId} \cup Ids,
             body : Bodies]

\* handleMessage(): the correlation id, from correlationData, then from
\* userProperties.correlationId, then from the JSON body on the response topic
ExtractCorrelationId(msg) ==
  IF msg.correlationData # <<>> THEN FromBinaryCorrelationData(msg.correlationData)
  ELSE IF msg.userCorrelationId # NoId THEN msg.userCorrelationId
  ELSE IF msg.topic = responseTopic /\ msg.body.json THEN msg.body.correlationId
  ELSE NoId

\* handleMessage() returns true: the id names a pending call
Claims(msg) == ExtractCorrelationId(msg) \in DOMAIN pendingRequests

\* a handler that forgets clearTimeout(pending.timer)
ClearTimerForgotten(timers, id) == timers

\* clearTimeout(pending.timer)
ClearTimer(timers, id) == timers \ {id}

\* response.latencyMs
LatencyMs(createdAt) == now - createdAt

MapRemove(m, id) == [k \in DOMAIN m \ {id} |-> m[k]]
MapPut(m, id, v) == [k \in DOMAIN m \cup {id} |-> IF k = id THEN v ELSE m[k]]

\* the promise a caller of request() holds: request() awaits _publish and only
\* then returns requestPromise; a failed publish makes it throw
CallerPromise(id) ==
  IF pubAck[id] = "none" THEN [state |-> "none"]
  ELSE IF pubAck[id] = "inflight" THEN [state |-> "pending"]
  ELSE IF pubAck[id] = "err" THEN [state |-> "publishError"]
  ELSE IF requestPromise[id] = <<>> THEN [state |-> "pending"]
  ELSE [state |-> requestPromise[id][1].kind, value |-> requestPromise[id][1].value]

\* generate() of the sequential format: the counter is incremented and its value joined
\* with six random characters. An id is new unless an earlier id had the same sequence
\* number, when the random characters may come out the same and the id be that one again
SameSequence(seq) ==
  {issuedIds[i].id : i \in {j \in 1..Len(issuedIds) : issuedIds[j].seq = seq}}
FirstUnused == Cardinality({issuedIds[i].id : i \in 1..Len(issuedIds)}) + 1
Generate == (IF FirstUnused \in Ids THEN {FirstUnused} ELSE {}) \cup SameSequence(correlationCounter + 1)

\* reset() of the generator
GeneratorReset ==
  /\ HasRequestHandler
  /\ correlationCounter > 0
  /\ correlationCounter' = 0
  /\ UNCHANGED <<rrClient, responseTopic, pendingRequests, reqTimers, reqState, requestTopic,
                 requestPromise, pubAck, stats, now, messageCallbacks, lastDelivery>>
  /\ UNCHANGED <<connVars, subVars, queueVars>>
  /\ UNCHANGED tmVars
  /\ UNCHANGED supVars

\* request(topic, payload, options) on an initialised, connected handler
Request(t) ==
  /\ HasRequestHandler
  /\ rrClient # 0 /\ transports[rrClient] = "connected"
  /\ Len(issuedIds) < MaxIssued
  /\ \E id \in Generate :
       /\ correlationCounter' = correlationCounter + 1
       /\ issuedIds' = Append(issuedIds, [id |-> id, seq |-> correlationCounter + 1,
                                          pending |-> id \in DOMAIN pendingRequests])
       /\ pendingRequests' = MapPut(pendingRequests, id, [topic |-> t, createdAt |-> now])
       /\ reqTimers' = reqTimers \cup {id}
       /\ reqState' = [reqState EXCEPT ![id] = "pending"]
       /\ requestTopic' = [requestTopic EXCEPT ![id] = t]
       /\ pubAck' = [pubAck EXCEPT ![id] = "inflight"]
  /\ UNCHANGED <<rrClient, responseTopic, requestPromise, stats, now, messageCallbacks,
                 lastDelivery>>
  /\ UNCHANGED <<connVars, subVars, queueVars>>
  /\ UNCHANGED tmVars
  /\ UNCHANGED <<transportErrors, authErrorCalls, afterAuthError, lastReconnecting, connectCalls,
                 transportCreds, lastConfigCreds, lastAttempt, forceCallbacks, tokenConnects,
                 lastDestroy, destroyed, lastUnsubscribe, armedTimers, organizationId>>

\* the transport calls back the publish of a request
PublishAck(id, ok) ==
  /\ pubAck[id] = "inflight"
  /\ IF ok
       THEN /\ pubAck' = [pubAck EXCEPT ![id] = "ok"]
            /\ stats' = [stats EXCEPT !.requestsSent = @ + 1]
            /\ UNCHANGED <<pendingRequests, reqTimers, reqState>>
       ELSE /\ pubAck' = [pubAck EXCEPT ![id] = "err"]
            /\ stats' = [stats EXCEPT !.errors = @ + 1]
            /\ IF id \in DOMAIN pendingRequests
                 THEN /\ reqTimers' = ClearTimer(reqTimers, id)
                      /\ reqState' = [reqState EXCEPT ![id] = "error"]
                      /\ pendingRequests' = MapRemove(pendingRequests, id)
                 ELSE UNCHANGED <<pendingRequests, reqTimers, reqState>>
  /\ UNCHANGED <<rrClient, responseTopic, correlationCounter, requestTopic, requestPromise, now,
                 messageCallbacks, lastDelivery>>
  /\ UNCHANGED <<connVars, subVars, queueVars>>
  /\ UNCHANGED tmVars
  /\ UNCHANGED supVars

\* the timeout timer of a request fires
TimerFire(id) ==
  /\ id \in reqTimers
  /\ reqTimers' = reqTimers \ {id}
  /\ IF id \in DOMAIN pendingRequests
       THEN /\ reqState' = [reqState EXCEPT ![id] = "timeout"]
            /\ pendingRequests' = MapRemove(pendingRequests, id)
            /\ stats' = [stats EXCEPT !.timeouts = @ + 1]
            /\ requestPromise' = [requestPromise EXCEPT ![id] =
                 Append(@, [kind |-> "timeout", timerArmed |-> FALSE,
                            value |-> [correlationId |-> id, topic |-> pendingRequests[id].topic]])]
       ELSE UNCHANGED <<reqState, pendingRequests, stats, requestPromise>>
  /\ UNCHANGED <<rrClient, responseTopic, correlationCounter, requestTopic, pubAck, now, messageCallbacks,
                 lastDelivery>>
  /\ UNCHANGED <<connVars, subVars, queueVars>>
  /\ UNCHANGED tmVars
  /\ UNCHANGED supVars

\* cancelRequest(correlationId)
CancelRequest(id) ==
  /\ HasRequestHandler
  /\ id \in DOMAIN pendingRequests
  /\ reqTimers' = ClearTimer(reqTimers, id)
  /\ reqState' = [reqState EXCEPT ![id] = "cancelled"]
  /\ pendingRequests' = MapRemove(pendingRequests, id)
  /\ requestPromise' = [requestPromise EXCEPT ![id] =
       Append(@, [kind |-> "cancelled", timerArmed |-> id \in reqTimers',
                  value |-> [correlationId |-> id]])]
  /\ UNCHANGED <<rrClient, responseTopic, correlationCounter, requestTopic, pubAck, stats, now,
                 messageCallbacks, lastDelivery>>
  /\ UNCHANGED <<connVars, subVars, queueVars>>
  /\ UNCHANGED tmVars
  /\ UNCHANGED supVars

\* handleMessage() on a claimed message: timer cleared, entry removed, promise resolved
HandleResponse(msg) ==
  LET id == ExtractCorrelationId(msg)
  IN  /\ reqTimers' = ClearTimer(reqTimers, id)
      /\ reqState' = [reqState EXCEPT ![id] = "completed"]
      /\ pendingRequests' = MapRemove(pendingRequests, id)
      /\ stats' = [stats EXCEPT !.responsesReceived = @ + 1]
      /\ requestPromise' = [requestPromise EXCEPT ![id] =
           Append(@, [kind |-> "resolved", timerArmed |-> id \in reqTimers',
                      value |-> [correlationId |-> id, topic |-> msg.topic,
                                 payload |-> ParsePayload(msg.body),
                                 latencyMs |-> LatencyMs(pendingRequests[id].createdAt)]])]

\* the listeners _handleMessage() calls for a message the correlator did not claim
Listeners(msg) ==
  (IF MapHas(ongoingSubscriptions, msg.topic) /\ MapGet(ongoingSubscriptions, msg.topic).callback
     THEN <<"topic">> ELSE <<>>)
  \o [i \in 1..messageCallbacks |-> "global"]

\* a _handleMessage() that goes on to the listeners after the correlator claimed
OfferedWithoutReturn(msg) ==
  IF HasRequestHandler THEN <<"correlator">> \o Listeners(msg) ELSE Listeners(msg)

\* the order in which _handleMessage() offers a message
Offered(msg) ==
  IF HasRequestHandler
    THEN IF Claims(msg) THEN <<"correlator">> ELSE <<"correlator">> \o Listeners(msg)
    ELSE Listeners(msg)

\* transport 'message' event: _handleMessage(topic, message, packet)
Deliver(msg) ==
  /\ \E h \in Handles : transports[h] = "connected"
  /\ lastDelivery' = [claimed |-> HasRequestHandler /\ Claims(msg),
                      offered |-> Offered(msg), listeners |-> Listeners(msg)]
  /\ IF HasRequestHandler /\ Claims(msg)
       THEN HandleResponse(msg)
       ELSE UNCHANGED <<reqTimers, reqState, pendingRequests, stats, requestPromise>>
  /\ UNCHANGED <<rrClient, responseTopic, correlationCounter, requestTopic, pubAck, now, messageCallbacks>>
  /\ UNCHANGED <<connVars, subVars, queueVars>>
  /\ UNCHANGED tmVars
  /\ UNCHANGED supVars

\* onMessage(callback)
OnMessage ==
  /\ messageCallbacks < MaxListeners
  /\ messageCallbacks' = messageCallbacks + 1
  /\ UNCHANGED <<rrClient, responseTopic, correlationCounter, requestTopic, pendingRequests, reqTimers,
                 reqState, requestPromise, pubAck, stats, now, lastDelivery>>
  /\ UNCHANGED <<connVars, subVars, queueVars>>
  /\ UNCHANGED tmVars
  /\ UNCHANGED supVars

\* time passes
Tick ==
  /\ now < MaxTime
  /\ now' = now + 1
  /\ UNCHANGED <<rrClient, responseTopic, correlationCounter, requestTopic, pendingRequests, reqTimers,
                 reqState, requestPromise, pubAck, stats, messageCallbacks, lastDelivery>>
  /\ UNCHANGED <<connVars, subVars, queueVars>>
  /\ UNCHANGED tmVars
  /\ UNCHANGED supVars

\* --------------------------------------------------------------- token manager
MaxRefreshCalls == 3   \* refreshToken() calls, by the application and by the timers
MaxTokens == 2         \* successful responses of the token service
MaxAcquires == 1       \* createToken()/exchangeToken() calls
MaxRetries == 1        \* options.maxRefreshRetries explored
MaxRetryDelay == 1     \* options.refreshRetryDelay explored, in clock ticks
MaxRefreshIn == 1      \* refresh_recommended_at of a response, in clock ticks from now
MaxExpiresIn == 2      \* expires_at of a response, in clock ticks from now

\* constructor defaults: autoRefresh !== false, maxRefreshRetries || 3, refreshRetryDelay || 5000
DefaultTokenOptions == [autoRefresh |-> TRUE, maxRefreshRetries |-> 3, refreshRetryDelay |-> 5000]

\* a null date, a timer that is not armed
NoTime == 0 - 1

\* the bodies of successful responses: the times to refresh_recommended_at and to expires_at
Responses == [refreshIn : 0..MaxRefreshIn, expiresIn : 0..MaxExpiresIn]

\* new Date(response.expires_at) of a response without expires_at, or with one that is not
\* a timestamp: an Invalid Date object, whose getTime() is NaN
InvalidTime == 0 - 2
InvalidResponses == [refreshIn : 0..MaxRefreshIn, expiresIn : {InvalidTime}]

\* getTokenInfo(): the stored token with the current state
TokenInfo(tid, st) == [tokenId |-> tid, state |-> st]
NoInfo == [tokenId |-> 0, state |-> None]

\* a check of the expiry that never reports it
IsExpiredNever == FALSE

\* isExpired(): no expiry stored, or Date.now() >= expiresAt
IsExpired == expiresIn = NoTime \/ expiresIn = 0

\* isValid(): tokenId, accessToken and mqttCredentials set and not expired
IsValid == tokenId # 0 /\ mqttCredentials # 0 /\ ~IsExpired

\* getCredentials(): null without credentials or when expired, else the stored pair
NoCredentials == [username |-> 0, password |-> 0]
GetCredentials ==
  IF mqttCredentials = 0 \/ IsExpired THEN NoCredentials
  ELSE [username |-> mqttCredentials, password |-> mqttCredentials]

\* the refreshToken() calls whose request to the refresh endpoint is outstanding
RefreshInFlight ==
  {tokenRequests[i].call : i \in {j \in 1..Len(tokenRequests) : tokenRequests[j].kind = "refresh"}}

\* if (this.isRefreshing): the skip of refreshToken()
SkipRefresh(flag) == flag

\* refreshToken() up to its first await, run on the given field values: it
\* throws without a token, returns the current info when a refresh is flagged,
\* else raises the flag, enters REFRESHING and issues the request; the entry
\* also keeps the token the call was made for, whether its refresh time was
\* still ahead, whether it starts a refresh cycle (no request outstanding, no
\* retry pending), and (set later) the retry count at its failure and the
\* time a retry waited
StartRefresh(by, tid, st, flag, inFlight, untilRefresh) ==
  LET entry(issued, outcome, result, error) ==
        [by |-> by, during |-> inFlight, issued |-> issued,
         outcome |-> outcome, result |-> result, error |-> error,
         token |-> tid, early |-> untilRefresh > 0, retriesUsed |-> NoTime,
         waited |-> NoTime,
         starts |-> by # "retry" /\ retryTimers = <<>> /\ inFlight = {}]
  IN  IF tid = 0
        THEN [isRefreshing |-> flag, state |-> st,
              entry |-> entry(FALSE, "rejected", NoInfo, "noToken")]
      ELSE IF SkipRefresh(flag)
        THEN [isRefreshing |-> flag, state |-> st,
              entry |-> entry(FALSE, "resolved", TokenInfo(tid, st), None)]
      ELSE [isRefreshing |-> TRUE, state |-> "refreshing",
            entry |-> entry(TRUE, "pending", NoInfo, None)]

\* the request a refreshToken() call issued, for the call logged at index c
RefreshRequests(r, c) ==
  IF r.entry.issued THEN <<[kind |-> "refresh", call |-> c]>> ELSE <<>>

\* a delay that ignores the refresh time of the response
ScheduleDelayNone(untilRefresh) == 0

\* _scheduleRefresh(): Math.max(0, refreshTime - now)
ScheduleDelay(untilRefresh) == IF untilRefresh > 0 THEN untilRefresh ELSE 0

\* _cancelRefresh() that clears no timer
CancelRefreshSkipped(n) == n

\* _cancelRefresh(): clearTimeout of the timer held in this.refreshTimer, among n armed
CancelRefresh(n) == IF refreshTimer # NoTime THEN n - 1 ELSE n

\* the armed timers after _storeToken(response): with autoRefresh the held timer is
\* cancelled and a new one armed when the delay is positive
ArmedAfterStore(resp) ==
  IF ~tmOptions.autoRefresh THEN armedTimers
  ELSE CancelRefresh(armedTimers) + (IF ScheduleDelay(resp.refreshIn) > 0 THEN 1 ELSE 0)

\* _storeToken(response) with _scheduleRefresh(): state VALID, then with
\* autoRefresh the timer is cancelled and re-armed with the delay, or
\* refreshToken() is called at once when the delay is not positive
StoreToken(newId, resp, flag, inFlight) ==
  LET delay == ScheduleDelay(resp.refreshIn)
      nested == StartRefresh("schedule", newId, "valid", flag, inFlight, resp.refreshIn)
  IN  IF tmOptions.autoRefresh /\ delay <= 0
        THEN [state |-> nested.state, isRefreshing |-> nested.isRefreshing,
              refreshTimer |-> NoTime, calls |-> <<nested>>]
        ELSE [state |-> "valid", isRefreshing |-> flag,
              refreshTimer |-> IF tmOptions.autoRefresh THEN delay ELSE refreshTimer,
              calls |-> <<>>]

StoredCalls(s) == [i \in 1..Len(s.calls) |-> s.calls[i].entry]
StoredRequests(s) ==
  IF s.calls # <<>> THEN RefreshRequests(s.calls[1], Len(refreshCalls) + 1) ELSE <<>>

\* the callback onTokenError(error, type), when one is set
ReportTokenError(type) == IF tokenCallbacks THEN Append(tokenErrors, type) ELSE tokenErrors

\* options.organizationId of the n-th createToken()/exchangeToken() call: every call
\* names an organization of its own
OrganizationOf(n) == n

\* createToken(options) / exchangeToken(options) up to the await of the request:
\* the organization of the call is remembered, then the request is issued
AcquireToken(kind) ==
  /\ acquires' = acquires + 1
  /\ organizationId' = OrganizationOf(acquires + 1)
  /\ tokenRequests' = Append(tokenRequests, [kind |-> kind, call |-> 0, before |-> organizationId])
  /\ UNCHANGED <<tmOptions, tokenId, mqttCredentials, expiresIn, refreshIn, tokenState,
                 isRefreshing, refreshRetryCount, refreshTimer, retryTimers, tokenCallbacks,
                 tokenErrors, refreshCalls, tokensIssued>>
  /\ UNCHANGED <<connVars, subVars, queueVars, rrVars>>
  /\ UNCHANGED <<clientObs, lastDestroy, destroyed, lastUnsubscribe, issuedIds, armedTimers>>

CreateToken == acquires < MaxAcquires /\ AcquireToken("create")
ExchangeToken == acquires < MaxAcquires /\ AcquireToken("exchange")

\* the error types _request() attaches to a failure
RequestErrors == {"NETWORK_ERROR", "AUTH_FAILED"}

\* the token service answers the request of a createToken()/exchangeToken()
\* call of one of the given kinds: _storeToken, or ERROR and onTokenError
AcquireStore(i, kinds, ok, resp, err) ==
  /\ i \in 1..Len(tokenRequests)
  /\ tokenRequests[i].kind \in kinds
  /\ ok => tokensIssued < MaxTokens
  /\ (ok /\ resp.refreshIn = 0) => Len(refreshCalls) < MaxRefreshCalls
  /\ IF ok
       THEN LET s == StoreToken(tokensIssued + 1, resp, isRefreshing, RefreshInFlight)
            IN  /\ tokenId' = tokensIssued + 1
                /\ mqttCredentials' = tokensIssued + 1
                /\ expiresIn' = resp.expiresIn
                /\ refreshIn' = resp.refreshIn
                /\ tokensIssued' = tokensIssued + 1
                /\ isRefreshing' = s.isRefreshing
                /\ refreshTimer' = s.refreshTimer
                /\ armedTimers' = ArmedAfterStore(resp)
                /\ refreshCalls' = refreshCalls \o StoredCalls(s)
                /\ tokenRequests' = RemoveAt(tokenRequests, i) \o StoredRequests(s)
                /\ IF resp.expiresIn = InvalidTime
                     THEN \* this.expiresAt.toISOString() throws a RangeError after the
                          \* store: the catch block sets ERROR and reports it
                          /\ tokenState' = "error"
                          /\ tokenErrors' = ReportTokenError("AUTH_FAILED")
                     ELSE /\ tokenState' = s.state
                          /\ UNCHANGED tokenErrors
       ELSE /\ tokenState' = "error"
            /\ tokenErrors' = ReportTokenError(err)
            /\ tokenRequests' = RemoveAt(tokenRequests, i)
            /\ UNCHANGED <<tokenId, mqttCredentials, expiresIn, refreshIn, tokensIssued,
                           isRefreshing, refreshTimer, armedTimers, refreshCalls>>
  /\ UNCHANGED <<tmOptions, refreshRetryCount, retryTimers, tokenCallbacks, acquires>>

\* the token service answers a create/exchange request of the application
AcquireResponse(i, ok, resp, err) ==
  /\ AcquireStore(i, {"create", "exchange"}, ok, resp, err)
  /\ UNCHANGED <<connVars, subVars, queueVars, rrVars>>
  /\ UNCHANGED <<clientObs, lastDestroy, destroyed, lastUnsubscribe, issuedIds, organizationId>>

\* the configs of connectWithToken() by the fields that decide the token
\* call: externalToken (or idToken), secretKey with userEmail
TokenConnectConfigs == [externalToken : BOOLEAN, secret : BOOLEAN]

\* a choice of the token call that looks at the secret first
AuthMethodSecretFirst(cfg) ==
  IF cfg.secret THEN "connectCreate"
  ELSE IF cfg.externalToken THEN "connectExchange"
  ELSE None

\* the token call connectWithToken makes: exchangeToken with an external
\* token, else createToken with secretKey and userEmail, else none
AuthMethod(cfg) ==
  IF cfg.externalToken THEN "connectExchange"
  ELSE IF cfg.secret THEN "connectCreate"
  ELSE None

\* connectWithToken(config) up to the await of exchangeToken()/createToken():
\* it throws without a token manager and without the fields of either method
ConnectWithToken(cfg) ==
  /\ Len(tokenConnects) < MaxTokenConnects
  /\ LET entry(method, outcome) == [cfg |-> cfg, method |-> method, outcome |-> outcome]
     IN  IF ~HasTokenManager
           THEN /\ tokenConnects' = Append(tokenConnects, entry(None, "configError"))
                /\ UNCHANGED <<tokenRequests, acquires, organizationId>>
         ELSE IF AuthMethod(cfg) = None
           THEN /\ tokenConnects' = Append(tokenConnects, entry(None, "missingAuth"))
                /\ UNCHANGED <<tokenRequests, acquires, organizationId>>
         ELSE /\ acquires < MaxAcquires
              /\ acquires' = acquires + 1
              /\ organizationId' = OrganizationOf(acquires + 1)
              /\ tokenConnects' = Append(tokenConnects, entry(AuthMethod(cfg), "pending"))
              /\ tokenRequests' = Append(tokenRequests, [kind |-> AuthMethod(cfg),
                                                         call |-> Len(tokenConnects) + 1])
  /\ UNCHANGED <<tmOptions, tokenId, mqttCredentials, expiresIn, refreshIn, tokenState,
                 isRefreshing, refreshRetryCount, refreshTimer, retryTimers, tokenCallbacks,
                 tokenErrors, refreshCalls, tokensIssued>>
  /\ UNCHANGED <<transportErrors, authErrorCalls, afterAuthError, lastReconnecting, connectCalls,
                 transportCreds, lastConfigCreds, lastAttempt, forceCallbacks,
                 lastDestroy, destroyed, lastUnsubscribe, issuedIds, armedTimers>>
  /\ UNCHANGED <<connVars, subVars, queueVars, rrVars>>

\* connectWithToken(config) after the await: when the token call threw, so
\* does connectWithToken; else the credentials are read with getCredentials()
\* (null when already expired: reading credentials.username throws) and
\* connect() is called with them; the callback set afterwards with
\* setTokenRefreshedCallback only logs
TokenConnectResponse(i, ok, resp, err) ==
  /\ AcquireStore(i, {"connectExchange", "connectCreate"}, ok, resp, err)
  /\ LET c == tokenRequests[i].call
         settle(outcome) == [tokenConnects EXCEPT ![c].outcome = outcome]
     IN  IF ~ok
           THEN /\ tokenConnects' = settle("tokenError")
                /\ UNCHANGED connVars
                /\ UNCHANGED <<transportErrors, authErrorCalls, afterAuthError, lastReconnecting,
                               connectCalls, transportCreds, lastConfigCreds, lastAttempt>>
         ELSE IF resp.expiresIn = 0
           THEN /\ tokenConnects' = settle("typeError")
                /\ UNCHANGED connVars
                /\ UNCHANGED <<transportErrors, authErrorCalls, afterAuthError, lastReconnecting,
                               connectCalls, transportCreds, lastConfigCreds, lastAttempt>>
         ELSE IF AlreadyConnected
           THEN /\ tokenConnects' = settle("resolved")
                /\ UNCHANGED connVars
                /\ UNCHANGED <<transportErrors, authErrorCalls, afterAuthError, lastReconnecting,
                               connectCalls, transportCreds, lastConfigCreds, lastAttempt>>
         ELSE /\ tokenConnects' = settle("connecting")
              /\ OpenTransport(mqttCredentials', mqttCredentials')
  /\ UNCHANGED <<forceCallbacks, lastDestroy, destroyed, lastUnsubscribe, issuedIds, organizationId>>
  /\ UNCHANGED <<subVars, queueVars, rrVars>>

\* refreshToken() called by the application
RefreshToken ==
  /\ Len(refreshCalls) < MaxRefreshCalls
  /\ LET r == StartRefresh("app", tokenId, tokenState, isRefreshing, RefreshInFlight, refreshIn)
     IN  /\ isRefreshing' = r.isRefreshing
         /\ tokenState' = r.state
         /\ refreshCalls' = Append(refreshCalls, r.entry)
         /\ tokenRequests' = tokenRequests \o RefreshRequests(r, Len(refreshCalls) + 1)
  /\ UNCHANGED <<tmOptions, tokenId, mqttCredentials, expiresIn, refreshIn, refreshRetryCount,
                 refreshTimer, retryTimers, tokenCallbacks, tokenErrors, tokensIssued, acquires>>
  /\ UNCHANGED <<connVars, subVars, queueVars, rrVars, supVars>>

\* setTimeout(..., this.refreshRetryDelay): the timer of a retry, with the time it has waited
RetryTimer == [left |-> tmOptions.refreshRetryDelay, waited |-> 0]

\* the refresh endpoint answers the request of the refreshToken() call c:
\* _storeToken and the counter reset on success, a retry timer or ERROR with
\* onTokenError(error, REFRESH_FAILED) on failure, the flag lowered at the end
RefreshResponse(i, ok, resp) ==
  /\ i \in 1..Len(tokenRequests)
  /\ tokenRequests[i].kind = "refresh"
  /\ ok => tokensIssued < MaxTokens
  /\ (ok /\ resp.refreshIn = 0) => Len(refreshCalls) < MaxRefreshCalls
  /\ LET c == tokenRequests[i].call
     IN  IF ok
           THEN LET s == StoreToken(tokensIssued + 1, resp, isRefreshing, RefreshInFlight \ {c})
                IN  /\ tokenId' = tokensIssued + 1
                    /\ mqttCredentials' = tokensIssued + 1
                    /\ expiresIn' = resp.expiresIn
                    /\ refreshIn' = resp.refreshIn
                    /\ tokensIssued' = tokensIssued + 1
                    /\ tokenState' = s.state
                    /\ refreshTimer' = s.refreshTimer
                    /\ armedTimers' = ArmedAfterStore(resp)
                    /\ refreshRetryCount' = 0
                    /\ refreshCalls' =
                         [refreshCalls EXCEPT ![c].outcome = "resolved",
                                              ![c].result = TokenInfo(tokensIssued + 1, s.state)]
                           \o StoredCalls(s)
                    /\ tokenRequests' = RemoveAt(tokenRequests, i) \o StoredRequests(s)
                    /\ UNCHANGED <<retryTimers, tokenErrors>>
           ELSE /\ tokenRequests' = RemoveAt(tokenRequests, i)
                /\ IF refreshRetryCount < tmOptions.maxRefreshRetries
                     THEN /\ refreshRetryCount' = refreshRetryCount + 1
                          /\ retryTimers' = Append(retryTimers, RetryTimer)
                          /\ refreshCalls' =
                               [refreshCalls EXCEPT ![c].outcome = "resolved",
                                                    ![c].result = TokenInfo(tokenId, tokenState),
                                                    ![c].retriesUsed = refreshRetryCount]
                          /\ UNCHANGED <<tokenState, tokenErrors>>
                     ELSE /\ tokenState' = "error"
                          /\ tokenErrors' = ReportTokenError("REFRESH_FAILED")
                          /\ refreshCalls' =
                               [refreshCalls EXCEPT ![c].outcome = "rejected",
                                                    ![c].error = "requestFailed",
                                                    ![c].retriesUsed = refreshRetryCount]
                          /\ UNCHANGED <<refreshRetryCount, retryTimers>>
                /\ UNCHANGED <<tokenId, mqttCredentials, expiresIn, refreshIn, tokensIssued,
                               refreshTimer, armedTimers>>
  /\ isRefreshing' = FALSE
  /\ UNCHANGED <<tmOptions, tokenCallbacks, acquires>>
  /\ UNCHANGED <<connVars, subVars, queueVars, rrVars>>
  /\ UNCHANGED <<clientObs, lastDestroy, destroyed, lastUnsubscribe, issuedIds, organizationId>>

\* a retry timer fires: the flag is lowered and refreshToken() called
RetryTimerFire(k) ==
  /\ k \in 1..Len(retryTimers)
  /\ retryTimers[k].left = 0
  /\ Len(refreshCalls) < MaxRefreshCalls
  /\ retryTimers' = RemoveAt(retryTimers, k)
  /\ LET r == StartRefresh("retry", tokenId, tokenState, FALSE, RefreshInFlight, refreshIn)
     IN  /\ isRefreshing' = r.isRefreshing
         /\ tokenState' = r.state
         /\ refreshCalls' =
              Append(refreshCalls, [r.entry EXCEPT !.waited = retryTimers[k].waited])
         /\ tokenRequests' = tokenRequests \o RefreshRequests(r, Len(refreshCalls) + 1)
  /\ UNCHANGED <<tmOptions, tokenId, mqttCredentials, expiresIn, refreshIn, refreshRetryCount,
                 refreshTimer, tokenCallbacks, tokenErrors, tokensIssued, acquires>>
  /\ UNCHANGED <<connVars, subVars, queueVars, rrVars, supVars>>

\* the scheduled-refresh timer fires: state EXPIRING, then refreshToken()
RefreshTimerFire ==
  /\ refreshTimer = 0
  /\ Len(refreshCalls) < MaxRefreshCalls
  /\ refreshTimer' = NoTime
  /\ armedTimers' = armedTimers - 1
  /\ LET r == StartRefresh("timer", tokenId, "expiring", isRefreshing, RefreshInFlight, refreshIn)
     IN  /\ isRefreshing' = r.isRefreshing
         /\ tokenState' = r.state
         /\ refreshCalls' = Append(refreshCalls, r.entry)
         /\ tokenRequests' = tokenRequests \o RefreshRequests(r, Len(refreshCalls) + 1)
  /\ UNCHANGED <<tmOptions, tokenId, mqttCredentials, expiresIn, refreshIn, refreshRetryCount,
                 retryTimers, tokenCallbacks, tokenErrors, tokensIssued, acquires>>
  /\ UNCHANGED <<connVars, subVars, queueVars, rrVars>>
  /\ UNCHANGED <<clientObs, lastDestroy, destroyed, lastUnsubscribe, issuedIds, organizationId>>

\* one tick of the clock: the stored dates and the armed timers come one tick closer
Elapse(t) == IF t > 0 THEN t - 1 ELSE t

TokenTick ==
  /\ \/ expiresIn > 0
     \/ refreshIn > 0
     \/ refreshTimer > 0
     \/ \E k \in 1..Len(retryTimers) : retryTimers[k].left > 0
  /\ expiresIn' = Elapse(expiresIn)
  /\ refreshIn' = Elapse(refreshIn)
  /\ refreshTimer' = Elapse(refreshTimer)
  /\ retryTimers' =
       [k \in 1..Len(retryTimers) |->
          [left |-> Elapse(retryTimers[k].left),
           waited |-> IF retryTimers[k].left > 0 THEN retryTimers[k].waited + 1
                      ELSE retryTimers[k].waited]]
  /\ UNCHANGED <<tmOptions, tokenId, mqttCredentials, tokenState, isRefreshing,
                 refreshRetryCount, tokenCallbacks, tokenErrors, tokenRequests, refreshCalls,
                 tokensIssued, acquires>>
  /\ UNCHANGED <<connVars, subVars, queueVars, rrVars, supVars>>

\* a clear() that leaves the state as it is
ClearedStateKept == tokenState

\* this._setState(TOKEN_STATES.NONE) at the end of clear()
ClearedState == "none"

\* clear(): the scheduled timer is cancelled and the token state reset
ClearFields ==
  /\ refreshTimer' = NoTime
  /\ armedTimers' = CancelRefresh(armedTimers)
  /\ tokenId' = 0
  /\ mqttCredentials' = 0
  /\ expiresIn' = NoTime
  /\ refreshIn' = NoTime
  /\ refreshRetryCount' = 0
  /\ isRefreshing' = FALSE
  /\ organizationId' = 0
  /\ tokenState' = ClearedState
  /\ UNCHANGED <<tmOptions, retryTimers, tokenErrors, tokenRequests, refreshCalls,
                 tokensIssued, acquires>>

Clear ==
  /\ tokenId # 0
  /\ ClearFields
  /\ UNCHANGED tokenCallbacks
  /\ UNCHANGED <<connVars, subVars, queueVars, rrVars>>
  /\ UNCHANGED <<clientObs, lastDestroy, destroyed, lastUnsubscribe, issuedIds>>

\* set...Callback(callback)
SetTokenCallbacks ==
  /\ ~tokenCallbacks
  /\ tokenCallbacks' = TRUE
  /\ UNCHANGED <<tmOptions, tokenId, mqttCredentials, expiresIn, refreshIn, tokenState,
                 isRefreshing, refreshRetryCount, refreshTimer, retryTimers, tokenErrors,
                 tokenRequests, refreshCalls, tokensIssued, acquires>>
  /\ UNCHANGED <<connVars, subVars, queueVars, rrVars, supVars>>

\* the fields of the token manager that clear() and destroy() can write, and the timers
TokenFields ==
  [tokenId |-> tokenId, mqttCredentials |-> mqttCredentials, expiresIn |-> expiresIn,
   refreshIn |-> refreshIn, tokenState |-> tokenState, isRefreshing |-> isRefreshing,
   refreshRetryCount |-> refreshRetryCount, refreshTimer |-> refreshTimer,
   retryTimers |-> retryTimers, tokenCallbacks |-> tokenCallbacks,
   credentials |-> GetCredentials]

NoDestroy == <<>>

\* what destroy() is seen to do: the fields it leaves, whether it changed any, and whether
\* the manager was still as the previous destroy() had left it
ObserveDestroy ==
  lastDestroy' = <<[after |-> TokenFields', changed |-> TokenFields' # TokenFields,
                    again |-> lastDestroy # NoDestroy /\ lastDestroy[1].after = TokenFields]>>

\* destroy() without the four assignments of null
DestroyKeepsCallbacks ==
  /\ ClearFields
  /\ UNCHANGED tokenCallbacks
  /\ ObserveDestroy

\* destroy(): clear() and the callbacks set to null
Destroy ==
  /\ ClearFields
  /\ tokenCallbacks' = FALSE
  /\ ObserveDestroy

\* tokenManager.destroy() called by the application
TokenDestroy ==
  /\ Destroy
  /\ UNCHANGED <<transportErrors, authErrorCalls, afterAuthError, lastReconnecting,
                 connectCalls, transportCreds, lastConfigCreds, lastAttempt, forceCallbacks,
                 tokenConnects, destroyed, lastUnsubscribe,
                 issuedIds>>
  /\ UNCHANGED <<connVars, subVars, queueVars, rrVars>>

\* destroy() of the client: the transport ended by force and forgotten, the token manager and
\* the request handler destroyed and forgotten, record, buffer and listeners emptied, the
\* callbacks set to null, the state disconnected
ClientDestroy ==
  /\ IF client # 0
       THEN transports' = [transports EXCEPT ![client] = ForceEnd(@)]
       ELSE UNCHANGED transports
  /\ client' = 0
  /\ IF HasTokenManager THEN Destroy
                        ELSE UNCHANGED <<tmVars, lastDestroy, armedTimers, organizationId>>
  /\ IF HasRequestHandler
       THEN HandlerDestroy
       ELSE UNCHANGED <<requestPromise, reqState, reqTimers, pendingRequests, rrClient,
                        responseTopic>>
  /\ destroyed' = TRUE
  /\ ongoingSubscriptions' = <<>>
  /\ offlineQueue' = <<>>
  /\ messageCallbacks' = 0
  /\ connectionState' = "disconnected"
  /\ cycle' = "none"
  /\ UNCHANGED <<config, hasEverConnected, reconnectAttempts, lastConfig, connectPromise,
                 postConnectTimers, endCallbacks, drops>>
  /\ UNCHANGED <<transportSubs, subCalls, appSubs, protoSubs, resubBatches, unsubCalls,
                 unsubscribed, recordBefore>>
  /\ UNCHANGED <<published, transmitted, transmitCount, lastTransmit>>
  /\ UNCHANGED <<correlationCounter, requestTopic, pubAck, stats, now, lastDelivery>>
  /\ UNCHANGED <<transportErrors, authErrorCalls, afterAuthError, lastReconnecting,
                 connectCalls, transportCreds, lastConfigCreds, lastAttempt, forceCallbacks,
                 tokenConnects, lastUnsubscribe, issuedIds>>

\* ------------------------------------------------------------ specifications
NoDelivery == [claimed |-> FALSE, offered |-> <<>>, listeners |-> <<>>]

InitCommon ==
  /\ client = 0
  /\ transports = [h \in Handles |-> "unused"]
  /\ connectionState = "disconnected"
  /\ hasEverConnected = FALSE
  /\ reconnectAttempts = 0
  /\ lastConfig = FALSE
  /\ connectPromise = [h \in Handles |-> None]
  /\ postConnectTimers = {}
  /\ endCallbacks = {}
  /\ drops = 0
  /\ ongoingSubscriptions = <<>>
  /\ transportSubs = [h \in Handles |-> {}]
  /\ subCalls = <<>>
  /\ appSubs = [t \in Topics |-> <<>>]
  /\ protoSubs = [t \in Topics |-> 0]
  /\ resubBatches = <<>>
  /\ unsubCalls = {}
  /\ unsubscribed = {}
  /\ recordBefore = {}
  /\ cycle = "none"
  /\ offlineQueue = <<>>
  /\ published = <<>>
  /\ transmitted = <<>>
  /\ transmitCount = 0
  /\ lastTransmit = [branch |-> None, promise |-> None]
  /\ rrClient = 0
  /\ responseTopic = None
  /\ correlationCounter = 0
  /\ pendingRequests = << >>
  /\ reqTimers = {}
  /\ reqState = [id \in Ids |-> None]
  /\ requestTopic = [id \in Ids |-> None]
  /\ requestPromise = [id \in Ids |-> <<>>]
  /\ pubAck = [id \in Ids |-> None]
  /\ stats = [requestsSent |-> 0, responsesReceived |-> 0, timeouts |-> 0, errors |-> 0]
  /\ now = 0
  /\ messageCallbacks = 0
  /\ lastDelivery = NoDelivery
  /\ transportErrors = 0
  /\ authErrorCalls = 0
  /\ afterAuthError = NoAttempts
  /\ lastReconnecting = 0
  /\ connectCalls = 0
  /\ transportCreds = [h \in Handles |-> 0]
  /\ lastConfigCreds = 0
  /\ lastAttempt = [used |-> 0, stored |-> 0]
  /\ forceCallbacks = {}
  /\ tokenConnects = <<>>
  /\ lastDestroy = NoDestroy
  /\ destroyed = FALSE
  /\ lastUnsubscribe = NoUnsubscribe
  /\ issuedIds = <<>>
  /\ armedTimers = 0
  /\ organizationId = 0
  /\ tokenId = 0
  /\ tokenState = "none"
  /\ isRefreshing = FALSE
  /\ refreshRetryCount = 0
  /\ mqttCredentials = 0
  /\ expiresIn = NoTime
  /\ refreshIn = NoTime
  /\ refreshTimer = NoTime
  /\ retryTimers = <<>>
  /\ tokenCallbacks = FALSE
  /\ tokenErrors = <<>>
  /\ tokenRequests = <<>>
  /\ refreshCalls = <<>>
  /\ tokensIssued = 0
  /\ acquires = 0

\* DEFAULT_CONFIG with the options under study left open
Configs ==
  [staggeredResubscribe : BOOLEAN, postConnectDelay : BOOLEAN,
   enableOfflineQueue : BOOLEAN, maxOfflineQueueSize : {QueueCap},
   dropOldestOnQueueFull : BOOLEAN, enableRequestResponse : BOOLEAN,
   maxReconnectAttempts : {0}, reconnectOnAuthError : {FALSE}, maxAuthRetries : {0},
   tokenServiceUrl : {FALSE},
   defaultSubscribeQos : {1}, defaultPublishQos : {0}]

\* the correlator and message dispatch, on a client that connects and disconnects
InitRR ==
  /\ InitCommon
  /\ tmOptions = DefaultTokenOptions
  /\ config \in {c \in Configs : /\ c.enableRequestResponse /\ ~c.postConnectDelay
                                 /\ ~c.staggeredResubscribe
                                 /\ c.enableOfflineQueue /\ c.dropOldestOnQueueFull}

\* the first connect() call of the application
FirstConnect == ~lastConfig /\ Connect
HandlerTopic == CHOOSE t \in Topics : TRUE

NextRR ==
  \/ FirstConnect
  \/ \E h \in Handles : TransportConnect(h)
  \/ \E h \in Handles : EndComplete(h)
  \/ Disconnect
  \/ Request(HandlerTopic)
  \/ \E id \in Ids, ok \in BOOLEAN : PublishAck(id, ok)
  \/ \E id \in Ids : TimerFire(id)
  \/ \E id \in Ids : CancelRequest(id)
  \/ \E msg \in Messages : Deliver(msg)
  \/ Tick

SpecRR == InitRR /\ [][NextRR]_vars

\* the offline buffer on a client that connects, loses and regains its
\* connection and disconnects
InitQueue ==
  /\ InitCommon
  /\ tmOptions = DefaultTokenOptions
  /\ config \in {c \in Configs : ~c.enableRequestResponse /\ ~c.staggeredResubscribe}

NextQueue ==
  \/ FirstConnect
  \/ \E h \in Handles : TransportConnect(h)
  \/ \E h \in Handles : PostConnectTimer(h)
  \/ \E h \in Handles : TransportClose(h)
  \/ \E h \in Handles : TransportOffline(h)
  \/ \E h \in Handles : TransportReconnect(h)
  \/ \E h \in Handles : EndComplete(h)
  \/ Disconnect
  \/ Transmit(HandlerTopic)

SpecQueue == InitQueue /\ [][NextQueue]_vars

\* subscriptions on a client that loses and regains its connection
InitSub ==
  /\ InitCommon
  /\ tmOptions = DefaultTokenOptions
  /\ config \in {c \in Configs : ~c.enableRequestResponse /\ ~c.enableOfflineQueue
                                  /\ c.dropOldestOnQueueFull}

NextSub ==
  \/ FirstConnect
  \/ \E h \in Handles : TransportConnect(h)
  \/ \E h \in Handles : PostConnectTimer(h)
  \/ \E h \in Handles : TransportClose(h)
  \/ \E h \in Handles : TransportReconnect(h)
  \/ Subscribe(HandlerTopic, QosUndefined, FALSE)
  \/ \E i \in 1..Len(subCalls), granted \in BOOLEAN : SubscribeCallback(i, granted)
  \/ \E b \in 1..Len(resubBatches) : ResubTimer(b)
  \/ Unsubscribe(HandlerTopic)
  \/ \E c \in [h : Handles, topic : Topics], ok \in BOOLEAN : UnsubscribeCallback(c, ok)

SpecSub == InitSub /\ [][NextSub]_vars

\* the token manager: acquisition, manual and automatic refresh, retries
InitTM ==
  /\ InitCommon
  /\ config \in {c \in Configs : /\ ~c.enableRequestResponse /\ ~c.postConnectDelay
                                 /\ ~c.staggeredResubscribe
                                 /\ ~c.enableOfflineQueue /\ c.dropOldestOnQueueFull}
  /\ tmOptions \in [autoRefresh : BOOLEAN, maxRefreshRetries : {MaxRetries},
                     refreshRetryDelay : {MaxRetryDelay}]

NextTM ==
  \/ CreateToken
  \/ ExchangeToken
  \/ \E i \in 1..Len(tokenRequests), ok \in BOOLEAN, resp \in Responses, err \in RequestErrors :
       AcquireResponse(i, ok, resp, err)
  \/ RefreshToken
  \/ \E i \in 1..Len(tokenRequests), ok \in BOOLEAN, resp \in Responses :
       RefreshResponse(i, ok, resp)
  \/ \E k \in 1..Len(retryTimers) : RetryTimerFire(k)
  \/ RefreshTimerFire
  \/ TokenTick
  \/ Clear
  \/ SetTokenCallbacks
  \/ tokenCallbacks /\ TokenDestroy

SpecTM == InitTM /\ [][NextTM]_vars

\* the token manager left to itself: one token acquired, then only the
\* scheduled refreshes, their responses and their retries
InitTMAuto ==
  /\ InitCommon
  /\ config \in {c \in Configs : /\ ~c.enableRequestResponse /\ ~c.postConnectDelay
                                 /\ ~c.staggeredResubscribe
                                 /\ ~c.enableOfflineQueue /\ c.dropOldestOnQueueFull}
  /\ tmOptions \in [autoRefresh : {TRUE}, maxRefreshRetries : {MaxRetries},
                     refreshRetryDelay : {MaxRetryDelay}]

FirstAcquire == acquires = 0 /\ \E kind \in {"create", "exchange"} : AcquireToken(kind)

NextTMAuto ==
  \/ FirstAcquire
  \/ \E i \in 1..Len(tokenRequests), ok \in BOOLEAN, resp \in Responses, err \in RequestErrors :
       AcquireResponse(i, ok, resp, err)
  \/ \E i \in 1..Len(tokenRequests), ok \in BOOLEAN, resp \in Responses :
       RefreshResponse(i, ok, resp)
  \/ \E k \in 1..Len(retryTimers) : RetryTimerFire(k)
  \/ RefreshTimerFire
  \/ TokenTick
  \/ SetTokenCallbacks

SpecTMAuto == InitTMAuto /\ [][NextTMAuto]_vars

\* the connection supervisor: connect() at any time, transport events and
\* errors, reconnection with and without a maximum, disconnect()
ConnConfigs ==
  {[c EXCEPT !.maxReconnectAttempts = m, !.reconnectOnAuthError = r] :
     c \in {d \in Configs : /\ ~d.enableRequestResponse /\ ~d.staggeredResubscribe
                             /\ ~d.enableOfflineQueue /\ d.dropOldestOnQueueFull},
     m \in {0, MaxReconnect}, r \in BOOLEAN}

InitConn ==
  /\ InitCommon
  /\ tmOptions = DefaultTokenOptions
  /\ config \in ConnConfigs

NextConn ==
  \/ Connect
  \/ \E h \in Handles : TransportConnect(h)
  \/ \E h \in Handles : PostConnectTimer(h)
  \/ \E h \in Handles, kind \in ErrorKinds : TransportError(h, kind)
  \/ \E h \in Handles : TransportClose(h)
  \/ \E h \in Handles : TransportOffline(h)
  \/ \E h \in Handles : TransportReconnect(h)
  \/ \E h \in Handles : EndComplete(h)
  \/ Disconnect

SpecConn == InitConn /\ [][NextConn]_vars

\* a client connected with connectWithToken: scheduled refreshes, connection
\* losses with automatic reconnects, forceReconnect()
InitToken ==
  /\ InitCommon
  /\ config \in {[c EXCEPT !.tokenServiceUrl = TRUE] :
                   c \in {d \in Configs : /\ ~d.enableRequestResponse /\ ~d.postConnectDelay
                                           /\ ~d.staggeredResubscribe
                                           /\ ~d.enableOfflineQueue /\ d.dropOldestOnQueueFull}}
  /\ tmOptions \in [autoRefresh : {TRUE}, maxRefreshRetries : {MaxRetries},
                     refreshRetryDelay : {MaxRetryDelay}]

NextToken ==
  \/ acquires = 0 /\ \E cfg \in {c \in TokenConnectConfigs : c.externalToken} : ConnectWithToken(cfg)
  \/ \E i \in 1..Len(tokenRequests), ok \in BOOLEAN, resp \in Responses, err \in RequestErrors :
       TokenConnectResponse(i, ok, resp, err)
  \/ \E i \in 1..Len(tokenRequests), ok \in BOOLEAN, resp \in Responses :
       RefreshResponse(i, ok, resp)
  \/ \E k \in 1..Len(retryTimers) : RetryTimerFire(k)
  \/ RefreshTimerFire
  \/ TokenTick
  \/ \E h \in Handles : TransportConnect(h)
  \/ \E h \in Handles : TransportClose(h)
  \/ \E h \in Handles : TransportReconnect(h)
  \/ ForceReconnect
  \/ \E h \in Handles : ForceReconnectEnd(h)

SpecToken == InitToken /\ [][NextToken]_vars

\* connect() called again on a client that is connected, with a record and a
\* buffer to leave alone
InitAgain ==
  /\ InitCommon
  /\ tmOptions = DefaultTokenOptions
  /\ config \in {c \in Configs : /\ ~c.enableRequestResponse /\ ~c.staggeredResubscribe
                                 /\ c.enableOfflineQueue /\ c.dropOldestOnQueueFull}

NextAgain ==
  \/ FirstConnect
  \/ IsConnected /\ Connect
  \/ \E h \in Handles : TransportConnect(h)
  \/ \E h \in Handles : PostConnectTimer(h)
  \/ Subscribe(HandlerTopic, QosUndefined, FALSE)
  \/ \E i \in 1..Len(subCalls) : SubscribeCallback(i, TRUE)
  \/ Transmit(HandlerTopic)

SpecAgain == InitAgain /\ [][NextAgain]_vars

\* one token acquired from a service whose response may lack a valid expires_at, then time,
\* the scheduled refresh and clear()
NextExpiry ==
  \/ FirstAcquire
  \/ \E i \in 1..Len(tokenRequests), ok \in BOOLEAN, resp \in Responses \cup InvalidResponses,
         err \in RequestErrors :
       AcquireResponse(i, ok, resp, err)
  \/ \E i \in 1..Len(tokenRequests), ok \in BOOLEAN, resp \in Responses :
       RefreshResponse(i, ok, resp)
  \/ RefreshTimerFire
  \/ TokenTick
  \/ Clear

SpecExpiry == InitTM /\ [][NextExpiry]_vars

\* subscribe and unsubscribe on a client that connects, loses the transport and disconnects
NextUnsub ==
  \/ FirstConnect
  \/ \E h \in Handles : TransportConnect(h)
  \/ \E h \in Handles : TransportClose(h)
  \/ \E h \in Handles : EndComplete(h)
  \/ Disconnect
  \/ Subscribe(HandlerTopic, QosUndefined, FALSE)
  \/ \E i \in 1..Len(subCalls), granted \in BOOLEAN : SubscribeCallback(i, granted)
  \/ \E t \in Topics : Unsubscribe(t)
  \/ \E c \in [h : Handles, topic : Topics], ok \in BOOLEAN : UnsubscribeCallback(c, ok)

SpecUnsub == InitSub /\ [][NextUnsub]_vars

\* requests on a connected client whose generator may be reset
NextIds ==
  \/ FirstConnect
  \/ \E h \in Handles : TransportConnect(h)
  \/ Request(HandlerTopic)
  \/ \E id \in Ids, ok \in BOOLEAN : PublishAck(id, ok)
  \/ \E id \in Ids : TimerFire(id)
  \/ \E msg \in Messages : Deliver(msg)
  \/ GeneratorReset

SpecIds == InitRR /\ [][NextIds]_vars

\* teardown and forced reconnection of a client with calls pending
NextTeardown ==
  \/ FirstConnect
  \/ \E h \in Handles : TransportConnect(h)
  \/ \E h \in Handles : EndComplete(h)
  \/ Request(HandlerTopic)
  \/ \E id \in Ids, ok \in BOOLEAN : PublishAck(id, ok)
  \/ Disconnect
  \/ ClientDestroy
  \/ ForceReconnect
  \/ \E h \in Handles : ForceReconnectEnd(h)

SpecTeardown == InitRR /\ [][NextTeardown]_vars

\* authentication errors on a client that connects once: the default options, and
\* reconnectOnAuthError with a maximum of retries
AuthRetryConfigs ==
  {c \in Configs : /\ ~c.enableRequestResponse /\ ~c.staggeredResubscribe
                   /\ ~c.postConnectDelay
                   /\ ~c.enableOfflineQueue /\ c.dropOldestOnQueueFull}
    \cup {[c EXCEPT !.reconnectOnAuthError = TRUE, !.maxAuthRetries = k] :
            c \in {d \in Configs : /\ ~d.enableRequestResponse /\ ~d.staggeredResubscribe
                                    /\ ~d.postConnectDelay
                                    /\ ~d.enableOfflineQueue /\ d.dropOldestOnQueueFull},
            k \in 1..MaxAuthRetries}

InitAuthRetry ==
  /\ InitCommon
  /\ tmOptions = DefaultTokenOptions
  /\ config \in AuthRetryConfigs

NextAuthRetry ==
  \/ FirstConnect
  \/ \E h \in Handles : TransportConnect(h)
  \/ \E h \in Handles, kind \in ErrorKinds : TransportError(h, kind)
  \/ \E h \in Handles : TransportClose(h)
  \/ \E h \in Handles : TransportReconnect(h)
  \/ \E h \in Handles : EndComplete(h)

SpecAuthRetry == InitAuthRetry /\ [][NextAuthRetry]_vars

\* connectWithToken() with every kind of config, with and without a token
\* manager, on a client that buffers and subscribes
InitTokenConnect ==
  /\ InitCommon
  /\ config \in {[c EXCEPT !.tokenServiceUrl = u] :
                   c \in {d \in Configs : /\ ~d.enableRequestResponse /\ ~d.postConnectDelay
                                           /\ ~d.staggeredResubscribe
                                           /\ d.enableOfflineQueue /\ d.dropOldestOnQueueFull},
                   u \in BOOLEAN}
  /\ tmOptions \in [autoRefresh : {FALSE}, maxRefreshRetries : {MaxRetries},
                     refreshRetryDelay : {MaxRetryDelay}]

NextTokenConnect ==
  \/ \E cfg \in TokenConnectConfigs : ConnectWithToken(cfg)
  \/ \E i \in 1..Len(tokenRequests), ok \in BOOLEAN, resp \in Responses, err \in RequestErrors :
       TokenConnectResponse(i, ok, resp, err)
  \/ \E h \in Handles : TransportConnect(h)
  \/ transmitCount = 0 /\ Transmit(HandlerTopic)
  \/ appSubs[HandlerTopic] = <<>> /\ Subscribe(HandlerTopic, QosUndefined, FALSE)
  \/ \E i \in 1..Len(subCalls) : SubscribeCallback(i, TRUE)

SpecTokenConnect == InitTokenConnect /\ [][NextTokenConnect]_vars

\* the stored credentials over time: one token acquired, refreshed by the
\* schedule or by the application, expiring, cleared
\* the token manager left to itself and destroyed at any time, any number of times
NextDestroy ==
  \/ NextTMAuto
  \/ TokenDestroy

SpecDestroy == InitTMAuto /\ [][NextDestroy]_vars

NextTMCred ==
  \/ NextTMAuto
  \/ RefreshToken
  \/ Clear

SpecTMCred == InitTM /\ [][NextTMCred]_vars

\* tokens acquired one after the other, each call answered or not before the next
MaxReacquires == 2

NextAcquire ==
  \/ \E kind \in {"create", "exchange"} : acquires < MaxReacquires /\ AcquireToken(kind)
  \/ \E i \in 1..Len(tokenRequests), ok \in BOOLEAN, resp \in Responses, err \in RequestErrors :
       AcquireResponse(i, ok, resp, err)
  \/ \E i \in 1..Len(tokenRequests), ok \in BOOLEAN, resp \in Responses :
       RefreshResponse(i, ok, resp)
  \/ RefreshTimerFire
  \/ TokenTick
  \/ Clear

SpecAcquire == InitTM /\ [][NextAcquire]_vars

\* the token manager with the refreshes of the application, clear() and destroy()
NextTimer ==
  \/ FirstAcquire
  \/ \E i \in 1..Len(tokenRequests), ok \in BOOLEAN, resp \in Responses, err \in RequestErrors :
       AcquireResponse(i, ok, resp, err)
  \/ RefreshToken
  \/ \E i \in 1..Len(tokenRequests), ok \in BOOLEAN, resp \in Responses :
       RefreshResponse(i, ok, resp)
  \/ RefreshTimerFire
  \/ TokenTick
  \/ Clear
  \/ TokenDestroy

SpecTimer == InitTMAuto /\ [][NextTimer]_vars

\* message dispatch: one subscription, with or without a per-topic handler, global listeners
\* and pending calls on a connected client
InitMsg ==
  /\ InitCommon
  /\ tmOptions = DefaultTokenOptions
  /\ config \in {c \in Configs : /\ ~c.postConnectDelay /\ ~c.staggeredResubscribe
                                 /\ c.enableOfflineQueue /\ c.dropOldestOnQueueFull}

\* the topic the application subscribes to with a per-topic handler

NextMsg ==
  \/ FirstConnect
  \/ \E h \in Handles : TransportConnect(h)
  \/ \E cb \in BOOLEAN : appSubs[HandlerTopic] = <<>> /\ Subscribe(HandlerTopic, QosUndefined, cb)
  \/ \E i \in 1..Len(subCalls), granted \in BOOLEAN : SubscribeCallback(i, granted)
  \/ OnMessage
  \/ Request(HandlerTopic)
  \/ \E msg \in Messages : Deliver(msg)

SpecMsg == InitMsg /\ [][NextMsg]_vars

\* -------------------------------------------------------------------- claims
Settled(id) == requestPromise[id] # <<>>
Outcome(id) == requestPromise[id][1]

\* C1: a registered call that left the pending set by a reply, its timer or a
\* cancellation had its promise settled exactly once, by the matching path, a
\* call still pending has not been settled, no call is ever settled twice, and
\* a reply or a cancellation settles only after the call's timer was cleared.
C1_PendingCallExclusive ==
  \A id \in Ids :
    /\ Len(requestPromise[id]) <= 1
    /\ id \in DOMAIN pendingRequests => /\ ~Settled(id)
                                        /\ reqState[id] = "pending"
    /\ reqState[id] = "completed" => Settled(id) /\ Outcome(id).kind = "resolved"
    /\ reqState[id] = "timeout" => Settled(id) /\ Outcome(id).kind = "timeout"
    /\ reqState[id] = "cancelled" => Settled(id) /\ Outcome(id).kind = "cancelled"
    /\ Settled(id) /\ Outcome(id).kind \in {"resolved", "cancelled"} => ~Outcome(id).timerArmed
    /\ Settled(id) => id \notin reqTimers \/ Outcome(id).kind = "timeout"

\* C1 witness: a reply has settled a call whose timer had been armed, and the
\* timer is gone
C1_Witness ==
  \E id \in Ids : /\ reqState[id] = "completed"
                  /\ Outcome(id).kind = "resolved"
                  /\ id \notin reqTimers

\* C7: once the timer of a call has rejected it and the publish of the request
\* has been called back, the caller of request() holds a promise rejected with
\* the timeout error carrying the correlation id and the original topic.
C7_CallerSeesTimeout ==
  \A id \in Ids :
    (Settled(id) /\ Outcome(id).kind = "timeout" /\ pubAck[id] # "inflight")
      => CallerPromise(id) = [state |-> "timeout",
                              value |-> [correlationId |-> id, topic |-> requestTopic[id]]]

\* C8: once a reply has been claimed for a call and the publish of the request
\* has been called back, the caller of request() holds a promise resolved with
\* the parsed payload and a latency >= 0, the call is out of the pending set
\* and its timer produced no rejection.
C8_CallerSeesReply ==
  \A id \in Ids :
    (Settled(id) /\ Outcome(id).kind = "resolved" /\ pubAck[id] # "inflight")
      => /\ CallerPromise(id).state = "resolved"
         /\ CallerPromise(id).value.latencyMs >= 0
         /\ id \notin DOMAIN pendingRequests
         /\ Len(requestPromise[id]) = 1

\* C9: when a correlator exists it is offered every inbound message first and
\* only once; a message it claims reaches no per-topic handler and no global
\* listener; a message it does not claim reaches the per-topic handler of its
\* topic and every global listener.
C9_CorrelatorFirst ==
  LET d == lastDelivery
      rest == IF config.enableRequestResponse THEN Tail(d.offered) ELSE d.offered
  IN  d.offered # <<>> =>
        /\ config.enableRequestResponse => d.offered[1] = "correlator"
        /\ \A i \in 1..Len(rest) : rest[i] # "correlator"
        /\ d.claimed => rest = <<>>
        /\ ~d.claimed => rest = d.listeners

\* C9 witness: the correlator claimed a message for whose topic a per-topic
\* handler and a global listener were registered
C9_Witness ==
  /\ lastDelivery.claimed
  /\ Len(lastDelivery.listeners) = 2

\* the last n elements of a sequence
LastN(q, n) == IF Len(q) <= n THEN q ELSE SubSeq(q, Len(q) - n + 1, Len(q))
FirstN(q, n) == IF Len(q) <= n THEN q ELSE SubSeq(q, 1, n)

\* C4: with maxOfflineQueueSize = N > 0 the offline buffer never holds more
\* than N messages.
C4_QueueBounded ==
  config.maxOfflineQueueSize > 0 => Len(offlineQueue) <= config.maxOfflineQueueSize

\* C4 witness: the buffer is at capacity after more than N offline transmit() calls
C4_Witness ==
  /\ Len(offlineQueue) = config.maxOfflineQueueSize
  /\ Len(transmitted) > config.maxOfflineQueueSize

\* C5: with the queue enabled and dropOldestOnQueueFull, after N+1 (or more)
\* transmit() calls made offline from an empty buffer the buffer holds exactly
\* the last N messages transmitted, in the order of the calls.
C5_DropOldestKeepsLastN ==
  (config.enableOfflineQueue /\ config.dropOldestOnQueueFull
     /\ Len(transmitted) > config.maxOfflineQueueSize)
    => offlineQueue = LastN(transmitted, config.maxOfflineQueueSize)

\* C5 witness: exactly N+1 offline transmit() calls under drop-oldest
C5_Witness ==
  /\ config.enableOfflineQueue /\ config.dropOldestOnQueueFull
  /\ Len(transmitted) = config.maxOfflineQueueSize + 1
  /\ lastTransmit.branch = "queued"

\* C6: with the queue enabled and dropOldestOnQueueFull = false, after N+1 (or
\* more) transmit() calls made offline from an empty buffer the buffer holds
\* the first N messages in order, and the transmit() that was discarded resolved.
C6_RejectNewKeepsFirstN ==
  (config.enableOfflineQueue /\ ~config.dropOldestOnQueueFull
     /\ Len(transmitted) > config.maxOfflineQueueSize)
    => /\ offlineQueue = FirstN(transmitted, config.maxOfflineQueueSize)
       /\ lastTransmit.branch # "published" => lastTransmit = [branch |-> "dropped", promise |-> "resolved"]

\* C6 witness: the (N+1)th offline transmit() was discarded
C6_Witness ==
  /\ config.enableOfflineQueue /\ ~config.dropOldestOnQueueFull
  /\ Len(transmitted) = config.maxOfflineQueueSize + 1
  /\ lastTransmit.branch = "dropped"

\* resubscription has finished: no resubscribe timer is armed, no resubscribe
\* call awaits its callback and no postConnectDelay timer is armed
ResubscriptionFinished ==
  /\ resubBatches = <<>>
  /\ postConnectTimers = {}
  /\ \A i \in 1..Len(subCalls) : subCalls[i].promise # 0

\* C3: after a transport disconnect and a successful reconnect, once
\* resubscription has finished, the topics subscribed on the transport are the
\* topics of the subscription record held before the disconnect.
C3_ResubscribeRestoresRecord ==
  (cycle = "reconnected" /\ IsConnected /\ ResubscriptionFinished)
    => transportSubs[client] \cap Topics = recordBefore

\* C10: two subscribe(t) calls on a connected client with no unsubscribe(t)
\* cause exactly one protocol-level subscribe call.
C10_SubscribeTwiceOneProtocolCall ==
  \A t \in Topics :
    (t \notin unsubscribed /\ Len(appSubs[t]) = 2
       /\ \A i \in 1..2 : appSubs[t][i] # "notConnected")
      => protoSubs[t] = 1

\* C2: a refreshToken() call made while a refresh is in flight issues no
\* request of its own, and once both have settled it has the outcome and the
\* result of the in-flight call.
C2_ConcurrentRefreshShared ==
  \A c \in 1..Len(refreshCalls) : \A j \in refreshCalls[c].during :
    /\ ~refreshCalls[c].issued
    /\ (refreshCalls[c].outcome # "pending" /\ refreshCalls[j].outcome # "pending")
         => /\ refreshCalls[c].outcome = refreshCalls[j].outcome
            /\ refreshCalls[c].result = refreshCalls[j].result


\* the refreshToken() calls made by the schedule for token t: at once by
\* _scheduleRefresh or later by its timer
ScheduledCalls(t) ==
  {i \in 1..Len(refreshCalls) :
     refreshCalls[i].by \in {"schedule", "timer"} /\ refreshCalls[i].token = t}

C13_CredentialsOfStoredToken ==
  IF tokenId = 0 \/ expiresIn <= 0
    THEN GetCredentials = NoCredentials
    ELSE GetCredentials = [username |-> tokenId, password |-> tokenId]

\* a refreshed token is stored and not expired: the credentials are those of the refresh
C13_Witness ==
  /\ tokenId > 1
  /\ expiresIn > 0
  /\ GetCredentials = [username |-> tokenId, password |-> tokenId]

\* the refreshToken() calls that ended in the ERROR state with REFRESH_FAILED
RefreshFailures ==
  {i \in 1..Len(refreshCalls) :
     refreshCalls[i].outcome = "rejected" /\ refreshCalls[i].error = "requestFailed"}

\* the request of call i was the only one outstanding from its start to its end
Undisturbed(i) ==
  /\ refreshCalls[i].during = {}
  /\ \A j \in 1..Len(refreshCalls) : i \notin refreshCalls[j].during

\* C14: a refresh cycle makes at most maxRefreshRetries retries, each no
\* sooner than refreshRetryDelay after the failure that armed it; the state
\* becomes error and REFRESH_FAILED is reported only by a failure that
\* follows the retries of its cycle, never by the failure of the request
\* that starts a cycle and runs alone
C14_ErrorOnlyAfterRetries ==
  /\ refreshRetryCount <= tmOptions.maxRefreshRetries
  /\ \A i \in 1..Len(refreshCalls) :
        refreshCalls[i].by = "retry" => refreshCalls[i].waited >= tmOptions.refreshRetryDelay
  /\ \A i \in RefreshFailures :
        /\ refreshCalls[i].retriesUsed = tmOptions.maxRefreshRetries
        /\ (tmOptions.maxRefreshRetries > 0 /\ Undisturbed(i)) => ~refreshCalls[i].starts
  /\ tokenCallbacks =>
        Len(SelectSeq(tokenErrors, LAMBDA e : e = "REFRESH_FAILED")) <= Cardinality(RefreshFailures)

\* C12: with reconnectOnAuthError off, once a transport has reported an
\* authentication error the auth-error callback has been invoked and at most
\* one reconnect attempt is begun afterwards
C12_AuthErrorStopsReconnecting ==
  (~config.reconnectOnAuthError /\ afterAuthError # NoAttempts) =>
    /\ authErrorCalls >= 1
    /\ afterAuthError <= 1

\* C15: every 'reconnect' event raises the counter by one and passes the
\* new count to onReconnecting, and with a maximum M > 0 the counter never
\* goes beyond M
C15_ReconnectCounterBounded ==
  /\ reconnectAttempts > 0 => lastReconnecting = reconnectAttempts
  /\ config.maxReconnectAttempts > 0 =>
        /\ reconnectAttempts <= config.maxReconnectAttempts
        /\ lastReconnecting <= config.maxReconnectAttempts

\* C16: a topic of the subscription record is still in the record after a
\* transport disconnect and reconnect, once resubscription has finished,
\* whatever the resubscribe calls returned, unless the application has
\* unsubscribed or disconnected meanwhile
C16_RecordSurvivesReconnect ==
  (cycle = "reconnected" /\ ResubscriptionFinished)
    => recordBefore \subseteq MapKeys(ongoingSubscriptions)

\* C17: messages reach the transport in the order of their transmit() calls:
\* the buffered messages in the order they were buffered, and all of them
\* before any message passed to transmit() after the connect acknowledgment
\* (messages are numbered by their transmit() call)
C17_BufferedBeforeNew ==
  \A i, j \in 1..Len(published) :
    i < j => published[i].message < published[j].message

\* C18: on a client connected with connectWithToken, a connection attempt
\* opened while the token manager holds refreshed credentials (automatic
\* reconnect or forceReconnect) uses those credentials
C18_ReconnectUsesRefreshedCredentials ==
  lastAttempt.stored > 1 => lastAttempt.used = lastAttempt.stored

\* C19: when reconnection has been given up at maxReconnectAttempts and the
\* transport is closed for good, the promise of the connect() call that
\* opened it is no longer pending: it has been resolved or rejected
C19_ConnectSettlesOnGiveUp ==
  \A h \in Handles :
    (/\ config.maxReconnectAttempts > 0
     /\ reconnectAttempts >= config.maxReconnectAttempts
     /\ connectionState = "error"
     /\ client = h
     /\ transports[h] = "ended")
      => connectPromise[h] # "pending"

\* C20: a connect() call made while the transport is connected only resolves:
\* no transport is opened and the connection state, the current transport,
\* the reconnect counter, the stored config, the pending connect promises,
\* the subscription record and the outbound buffer stay as they were
C20_ConnectWhileConnectedIsNoOp ==
  [][(IsConnected /\ Connect) =>
       /\ connectCalls' = connectCalls + 1
       /\ UNCHANGED <<transports, connectionState, client, reconnectAttempts, lastConfig,
                      lastConfigCreds, transportCreds, connectPromise, hasEverConnected,
                      ongoingSubscriptions, subCalls, offlineQueue, published>>]_vars

\* connect() has been called on a connected client that holds a subscription
\* and, its post-connect timer still pending, a buffered message
C20_Witness ==
  /\ connectCalls > 0
  /\ IsConnected
  /\ ongoingSubscriptions # <<>>
  /\ offlineQueue # <<>>

\* the outcomes of connectWithToken() that are failures before any connect()
TokenConnectFailures == {"configError", "missingAuth", "tokenError"}

\* C21: connectWithToken() fails with the configuration error when the client
\* has no token manager, with an error when its config has neither an external
\* token nor secret and identity, and with the error of the token call when
\* that fails; the step in which it fails leaves the transports, the
\* connection state, the subscription record and the outbound buffer as they
\* were; with an external token the token call made is the exchange
C21_TokenConnectFailuresChangeNothing ==
  [][\A k \in 1..Len(tokenConnects') :
       LET e == tokenConnects'[k]
           settledNow == k > Len(tokenConnects) \/ tokenConnects[k].outcome # e.outcome
       IN  /\ ~config.tokenServiceUrl => e.outcome = "configError" /\ e.method = None
           /\ (config.tokenServiceUrl /\ ~e.cfg.externalToken /\ ~e.cfg.secret)
                 => e.outcome = "missingAuth" /\ e.method = None
           /\ (config.tokenServiceUrl /\ e.cfg.externalToken) => e.method = "connectExchange"
           /\ (settledNow /\ e.method = None) => tokenRequests' = tokenRequests
           /\ (settledNow /\ e.outcome \in TokenConnectFailures)
                 => UNCHANGED <<transports, client, connectionState, lastConfig,
                                ongoingSubscriptions, offlineQueue, published>>]_vars

\* connectWithToken() has failed on its token call while a message was
\* buffered, and a call given both an external token and a secret made the exchange
C21_Witness ==
  /\ offlineQueue # <<>>
  /\ \E k \in 1..Len(tokenConnects) :
        /\ tokenConnects[k].outcome = "tokenError"
        /\ tokenConnects[k].cfg.externalToken /\ tokenConnects[k].cfg.secret
        /\ tokenConnects[k].method = "connectExchange"

\* C22: destroy() leaves no refresh timer armed, no stored credential (state none,
\* getCredentials() null) and no callbacks attached; a destroy() of a manager that is still
\* as a destroy() left it changes none of its fields.
C22_DestroyLeavesNothing ==
  lastDestroy # NoDestroy =>
    LET d == lastDestroy[1]
    IN  /\ d.after.refreshTimer = NoTime
        /\ d.after.tokenId = 0 /\ d.after.mqttCredentials = 0
        /\ d.after.tokenState = "none"
        /\ d.after.credentials = NoCredentials
        /\ ~d.after.tokenCallbacks
        /\ d.again => ~d.changed

C22_Witness ==
  /\ lastDestroy # NoDestroy
  /\ lastDestroy[1].again
  /\ tokensIssued > 0
  /\ TokenFields = lastDestroy[1].after

\* the transitions of the documented state machine
ConnectionStates ==
  {"disconnected", "connecting", "connected", "reconnecting", "error", "disconnecting"}

DocumentedTransitions ==
  {<<"disconnected", "connecting">>, <<"connecting", "connected">>,
   <<"connected", "reconnecting">>, <<"reconnecting", "connected">>,
   <<"connected", "error">>, <<"reconnecting", "error">>,
   <<"disconnecting", "disconnected">>}
    \cup {<<st, "disconnecting">> : st \in ConnectionStates}

\* C23: every change of the connection state is a transition of the documented state
\* machine, for any sequence of client calls and transport events
C23_OnlyDocumentedTransitions ==
  [][connectionState' # connectionState =>
       <<connectionState, connectionState'>> \in DocumentedTransitions]_vars

\* C24: once a transport has reported an authentication error, at most maxAuthRetries
\* reconnect attempts are begun: none with the default options, at most K with
\* reconnectOnAuthError on and maxAuthRetries = K
C24_AuthRetriesBounded ==
  afterAuthError # NoAttempts => afterAuthError <= config.maxAuthRetries

\* C25: disconnect(), destroy() and forceReconnect() each leave no call pending that was
\* pending when they were called: each such call is removed, marked cancelled, rejected
\* with the cancellation error, and its timer is cleared
C25_TeardownCancelsPending ==
  [][(Disconnect \/ ClientDestroy \/ ForceReconnect) =>
       \A id \in DOMAIN pendingRequests :
         /\ id \notin DOMAIN pendingRequests'
         /\ id \notin reqTimers'
         /\ reqState'[id] = "cancelled"
         /\ Len(requestPromise'[id]) > 0
         /\ requestPromise'[id][Len(requestPromise'[id])].kind = "cancelled"]_vars

C27_NoExpiryIsExpired ==
  (mqttCredentials # 0 /\ expiresIn \in {NoTime, InvalidTime}) =>
    /\ IsExpired
    /\ ~IsValid
    /\ GetCredentials = NoCredentials

\* C28: generate() never returns an id it has returned before, and request() never
\* registers an id for which a call is pending
C28_IdsNeverRepeat ==
  \A i, j \in 1..Len(issuedIds) :
    /\ ~issuedIds[i].pending
    /\ i # j => issuedIds[i].id # issuedIds[j].id

\* C29: at most one scheduled-refresh timer is armed, and none when the manager holds none
C29_AtMostOneRefreshTimer ==
  /\ armedTimers \in {0, 1}
  /\ armedTimers = 1 <=> refreshTimer # NoTime

C29_Witness ==
  /\ armedTimers = 1
  /\ tokensIssued > 1
  /\ \E i \in 1..Len(refreshCalls) : refreshCalls[i].by = "app" /\ refreshCalls[i].outcome = "resolved"

\* C30: with autoRefresh every store schedules the refresh of the stored token: the
\* refreshToken() call _scheduleRefresh makes at once for a refresh time that is not ahead
\* issues its request, and a stored token has its timer armed or its request issued, also
\* when a refresh that has just completed stored it
C30_StoreSchedulesRefresh ==
  tmOptions.autoRefresh =>
    /\ \A i \in 1..Len(refreshCalls) :
          refreshCalls[i].by = "schedule" => refreshCalls[i].issued
    /\ tokenId # 0 =>
          \/ refreshTimer # NoTime
          \/ \E i \in ScheduledCalls(tokenId) : refreshCalls[i].issued

\* C31: the armed request timers are those of the calls in the pending set: a
\* pending call has its timer armed, and a call that left the pending set by a
\* reply, its timer, a cancellation, a teardown or a failed publish has none.
C31_TimersMatchPending == reqTimers = DOMAIN pendingRequests

\* C31 witness: a call is pending with its timer armed after an earlier call
\* left the pending set by a failed publish, or every call was cancelled by a
\* teardown and no timer is left
C31_Witness ==
  \/ \E id, other \in Ids : /\ reqState[other] = "error"
                            /\ id \in DOMAIN pendingRequests /\ id \in reqTimers
  \/ /\ \E id \in Ids : reqState[id] = "cancelled" /\ rrClient = 0
     /\ reqTimers = {}

\* C32: at most one transport handle of the client is live (opened and not
\* ended) in any state, also after connect() is called while an earlier
\* connect() is still connecting or the transport is reconnecting.
C32_OneLiveTransport ==
  Cardinality({h \in Handles : transports[h] \notin {"unused", "ending", "ended"}}) <= 1

\* C33: a subscribe(t) call leaves the subscription record as it is: rejected
\* at once when the client is not connected, it otherwise waits for the
\* transport; the callback of the transport sets the entry of t and resolves
\* when the broker granted, and rejects with the record unchanged on an error.
\* A topic enters the record only in the step of a granted callback.
C33_RecordedOnlyOnGrant ==
  [][/\ \A t \in Topics, q \in QosOptions, cb \in BOOLEAN :
          Subscribe(t, q, cb) =>
            /\ ongoingSubscriptions' = ongoingSubscriptions
            /\ ~IsConnected => appSubs'[t][Len(appSubs'[t])] = "notConnected"
     /\ \A i \in 1..Len(subCalls), granted \in BOOLEAN :
          SubscribeCallback(i, granted) /\ subCalls[i].promise # 0 =>
            IF granted
              THEN /\ MapHas(ongoingSubscriptions', subCalls[i].topic)
                   /\ appSubs'[subCalls[i].topic][subCalls[i].promise] = "resolved"
              ELSE /\ ongoingSubscriptions' = ongoingSubscriptions
                   /\ appSubs'[subCalls[i].topic][subCalls[i].promise] = "rejected"
     /\ \A t \in Topics :
          MapHas(ongoingSubscriptions', t) /\ ~MapHas(ongoingSubscriptions, t) =>
            \E i \in 1..Len(subCalls) : subCalls[i].topic = t /\ SubscribeCallback(i, TRUE)
    ]_vars

\* C33 witness: one subscribe(t) was rejected by the transport and a later one
\* was granted, and t is in the record
C33_Witness ==
  \E t \in Topics : /\ Len(appSubs[t]) = 2
                    /\ appSubs[t][1] \in {"rejected", "notConnected"}
                    /\ appSubs[t][2] = "resolved"
                    /\ MapHas(ongoingSubscriptions, t)

\* C34: at most one request to the refresh endpoint is outstanding in any
\* state, also when refreshToken() is called by the application or by the
\* scheduled-refresh timer while a failed refresh waits for its retry or the
\* retry is in flight.
C34_OneRefreshOutstanding == Cardinality(RefreshInFlight) <= 1

\* the token manager holds no token after having been destroyed or after having
\* held one: clear() or destroy() has run and nothing was stored since
AfterClear == tokenId = 0 /\ (tokensIssued > 0 \/ lastDestroy # NoDestroy)

\* C35: a response of the token service (create, exchange or refresh) that
\* arrives after clear() or destroy() has no effect: the credential stays
\* cleared and the state none, no refresh or retry timer is armed by it and no
\* further request is issued.
C35_LateResponseIgnored ==
  [][(/\ AfterClear
      /\ \E i \in 1..Len(tokenRequests), ok \in BOOLEAN, resp \in Responses, err \in RequestErrors :
           AcquireResponse(i, ok, resp, err) \/ RefreshResponse(i, ok, resp))
       => /\ tokenId' = 0 /\ mqttCredentials' = 0
          /\ tokenState' = "none"
          /\ refreshTimer' = NoTime
          /\ retryTimers' = retryTimers
          /\ Len(tokenRequests') = Len(tokenRequests) - 1
    ]_vars

\* C36: after unsubscribe(t) has resolved, with no subscribe(t) of the
\* application pending then or called since, t is in neither the subscription
\* record nor the subscriptions of the current transport, also when a staggered
\* resubscription was in progress at the unsubscribe.
C36_UnsubscribedStaysAbsent ==
  \A t \in Topics :
    (/\ lastUnsubscribe.topic = t /\ lastUnsubscribe.outcome = "resolved"
     /\ lastUnsubscribe.clean /\ AppSubscribes(t) = lastUnsubscribe.subs)
      => /\ ~MapHas(ongoingSubscriptions, t)
         /\ client # 0 => t \notin transportSubs[client]

\* C37: an event of a transport handle that is not the client's current handle
\* changes neither the connection state nor the reconnect counter nor the
\* subscription record; and the connection state is connected only while the
\* current handle exists and is connected.
C37_StaleHandleEventsIgnored ==
  /\ [](connectionState = "connected" => IsConnected)
  /\ [][\A h \in Handles :
          (/\ h # client
           /\ \/ TransportConnect(h) \/ TransportClose(h) \/ TransportOffline(h)
              \/ TransportReconnect(h) \/ \E kind \in ErrorKinds : TransportError(h, kind))
            => UNCHANGED <<connectionState, reconnectAttempts, ongoingSubscriptions>>
       ]_vars

C39_FailedAcquireKeepsCredential ==
  [][\A i \in 1..Len(tokenRequests), resp \in Responses, err \in RequestErrors :
       AcquireResponse(i, FALSE, resp, err)
         => /\ tokenState' = "error"
            /\ tokenErrors' = ReportTokenError(err)
            /\ UNCHANGED <<tokenId, mqttCredentials, expiresIn, refreshIn, refreshTimer>>
            /\ organizationId' = tokenRequests[i].before
    ]_vars

\* the message request() publishes for the call id: sent to the request topic
\* with the id as correlationData, as the user property correlationId and in
\* the enriched JSON payload
OutgoingRequest(id) ==
  [topic |-> requestTopic[id], correlationData |-> ToBinaryCorrelationData(id),
   userCorrelationId |-> id, body |-> [json |-> TRUE, correlationId |-> id]]

\* C40: when the broker delivers the request message of a pending call back to
\* its sender, subscribed to the request topic, the correlator does not claim
\* it and the call stays pending.
C40_OwnRequestNotClaimed ==
  [][\A id \in Ids :
       (/\ id \in DOMAIN pendingRequests
        /\ client # 0 /\ requestTopic[id] \in transportSubs[client]
        /\ Deliver(OutgoingRequest(id)))
         => /\ id \in DOMAIN pendingRequests'
            /\ ~lastDelivery'.claimed
    ]_vars

====
